---- MODULE Spec2Model ----
(***************************************************************************)
(* A model of the CSV-backed task store of Task-Management-App:            *)
(* csv_manager.py (row codec, read_tasks, write_tasks, add/update/delete), *)
(* csv_export_import.py (import, backup, restore, delete_backup) and the   *)
(* update handler of app.py.                                               *)
(*                                                                         *)
(* Texts (Python str) are sequences of tokens; a token is either the       *)
(* white-space token " " or an opaque chunk of non-blank characters.       *)
(* A CSV file is Missing or a sequence of rows, a row a sequence of cells, *)
(* a cell a text.  A Python dict is a function whose domain is its keys.   *)
(***************************************************************************)
EXTENDS Naturals, Integers, Sequences, FiniteSets, TLC

VARIABLES
    file,       \* content of csv_file_path: Missing or File(rows)
    backups,    \* backup directory: [second of the file name -> content]
    now,        \* wall clock, in whole seconds
    nuuid,      \* how many uuid4 identifiers have been drawn
    res,        \* outcome of the last storage operation
    steps,      \* how many operations and clock ticks have happened
    snap,       \* history: [backup name -> table content when create_backup
                \* first returned that name]
    cIn,        \* codec round trip: the records handed to write_tasks
    cOut,       \* codec round trip: what read_tasks returned, or Pending
    th,         \* request threads: [thread -> its call, position and locals]
    tmp,        \* temporary files of write_tasks: [name -> content]
    disk,       \* delete_backup: the absolute paths of the files that exist
    pres,       \* delete_backup: outcome of the last call
    rd,         \* read_tasks on a file found on disk: its outcome
    lk,         \* _file_lock: the platform and each thread's lock attempt
    resp,       \* HTTP layer: the last response
    lastMod     \* history: [id -> second of the _last_modified stamp of the
                \* last successful update request]

vars == <<file, backups, now, nuuid, res, steps, snap, cIn, cOut, th, tmp,
          disk, pres, rd, lk, resp, lastMod>>

seqVars == <<backups, now, nuuid, res, steps, snap>>
codecVars == <<cIn, cOut>>
concVars == <<th, tmp>>

pathVars == <<disk, pres>>
httpVars == <<resp, lastMod>>
readVars == <<rd>>
lockVars == <<lk>>

\* what each specification leaves alone
nonSeqVars == <<codecVars, concVars, pathVars, httpVars, readVars, lockVars>>
nonCodecVars == <<seqVars, concVars, pathVars, httpVars, readVars, lockVars>>
nonConcVars == <<backups, now, res, steps, snap, codecVars, pathVars, httpVars,
                 readVars, lockVars>>
nonPathVars == <<file, seqVars, codecVars, concVars, httpVars, readVars, lockVars>>
nonHttpVars == <<backups, res, snap, codecVars, concVars, pathVars, readVars, lockVars>>
nonReadVars == <<seqVars, codecVars, concVars, pathVars, httpVars, lockVars>>
nonLockVars == <<file, seqVars, codecVars, concVars, pathVars, httpVars, readVars>>

-----------------------------------------------------------------------------
(* Bounds *)

\* longest record sequence handed to the codec round trip
MaxRecs == 2

\* most steps of one run: storage operations called and clock ticks
MaxSteps == 3

\* most calls one request thread makes
MaxOps == 1

-----------------------------------------------------------------------------
(* Values *)

\* Python's None: distinct from every text (no text holds this token)
None == <<"<None>">>

\* a file that does not exist, and a file holding the given rows
Missing == [exists |-> FALSE, rows |-> << >>]
File(rows) == [exists |-> TRUE, rows |-> rows]

\* the round trip has not run yet, and its outcome
Pending == [done |-> FALSE, tasks |-> << >>]
Returned(tasks) == [done |-> TRUE, tasks |-> tasks]

\* the white-space token
Space == " "

\* the empty str ''
Empty == << >>

\* a datetime object (datetime.now()) of clock second n; not a str
DtMark == "<datetime>"
DateTime(n) == <<DtMark, ToString(n)>>
IsDateTime(v) == Len(v) = 2 /\ v[1] = DtMark

\* datetime.isoformat(): clock second n as ISO-8601 text (one opaque chunk)
IsoText(n) == <<"T" \o ToString(n)>>
isoformat(v) == <<"T" \o v[2]>>

\* csv_manager.py:34-38
headers == <<"id", "task", "priority", "description", "created_date",
             "assignee", "opened_date", "status", "completion_date",
             "category", "tags">>

DateFields == {"created_date", "opened_date", "completion_date"}

\* the header row as written by csv.writer: one cell per column name
HeaderRow == [i \in 1..Len(headers) |-> <<headers[i]>>]

\* the column names as a set, and the column of each
HeaderSet == {headers[i] : i \in 1..Len(headers)}
HeaderIndex == [h \in HeaderSet |-> CHOOSE i \in 1..Len(headers) : headers[i] = h]

\* dict.get(key, default)
Get(d, k, default) == IF k \in DOMAIN d THEN d[k] ELSE default

\* Python truthiness of a value that is None, a str or a datetime
Truthy(v) == v # None /\ v # Empty

RECURSIVE LStrip(_)
LStrip(s) == IF s # << >> /\ Head(s) = Space THEN LStrip(Tail(s)) ELSE s

RECURSIVE RStrip(_)
RStrip(s) ==
    IF s # << >> /\ s[Len(s)] = Space THEN RStrip(SubSeq(s, 1, Len(s) - 1)) ELSE s

\* str.strip()
Strip(s) == RStrip(LStrip(s))

\* str(value) of a value that is a str
Str(v) == v

\* d[k] = v on a dict
SetKey(d, k, v) == (k :> v) @@ d

\* str(uuid.uuid4()): the k-th identifier drawn, unequal to every other id
Uuid(k) == <<"u" \o ToString(k)>>

-----------------------------------------------------------------------------
(* Row codec: csv_manager.py:110-152 *)

\* _parse_task_row, one cell: '' becomes None, anything else is stripped;
\* a date cell that strips to '' becomes None
ParseCell(h, cell) ==
    LET value == IF cell # Empty THEN Strip(cell) ELSE None
    IN  IF h \in DateFields
        THEN IF Truthy(value) /\ Strip(value) # Empty THEN Strip(value) ELSE None
        ELSE value

\* a column check that accepts rows with cells to spare
RowParses_AtLeast(row) == Len(row) >= Len(headers)

\* _parse_task_row returns None when the column count is wrong
RowParses(row) == Len(row) = Len(headers)

\* _parse_task_row of a row that parses
ParseTaskRow(row) ==
    [h \in HeaderSet |-> ParseCell(h, row[HeaderIndex[h]])]

\* _format_task_row, one cell
FormatCell(h, task) ==
    LET value == Get(task, h, Empty)
    IN  IF h \in DateFields
        THEN IF value # None /\ IsDateTime(value) THEN isoformat(value)
             ELSE IF Truthy(value) /\ Strip(Str(value)) # Empty
                  THEN Strip(Str(value))
                  ELSE Empty
        ELSE IF value # None THEN Str(value) ELSE Empty

\* _format_task_row
FormatTaskRow(task) == [i \in 1..Len(headers) |-> FormatCell(headers[i], task)]

-----------------------------------------------------------------------------
(* Table store, whole-file operations: csv_manager.py:41-49, 96-108, 154-229 *)

\* an _ensure_csv_exists that writes the header whatever it finds
EnsureCsvExists_Reset(f) == File(<<HeaderRow>>)

\* _ensure_csv_exists: the file after the call
EnsureCsvExists(f) ==
    IF ~f.exists \/ f.rows = << >> THEN File(<<HeaderRow>>) ELSE f

\* a header check that counts the columns only
ValidateCsvStructure_Count(f) ==
    IF f.rows = << >> THEN TRUE ELSE Len(f.rows[1]) = Len(headers)

\* _validate_csv_structure on an existing file
ValidateCsvStructure(f) == IF f.rows = << >> THEN TRUE ELSE f.rows[1] = HeaderRow

\* any(row): some cell is a non-empty str
AnyCell(row) == \E i \in 1..Len(row) : row[i] # Empty

RECURSIVE ParseRows(_)
ParseRows(rows) ==
    IF rows = << >> THEN << >>
    ELSE LET row == Head(rows)
             rest == ParseRows(Tail(rows))
         IN  IF ~AnyCell(row) THEN rest
             ELSE IF RowParses(row) THEN <<ParseTaskRow(row)>> \o rest
             ELSE rest

\* read_tasks on the file as _ensure_csv_exists left it:
\* the records, or a CSVManagerError
ReadTasks(f) ==
    LET g == EnsureCsvExists(f)
    IN  IF ~ValidateCsvStructure(g)
        THEN [ok |-> FALSE, error |-> "CSVManagerError", tasks |-> << >>]
        ELSE [ok |-> TRUE, error |-> "", tasks |-> ParseRows(Tail(g.rows))]

\* write_tasks: the content renamed over the table file
WriteTasks(tasks) ==
    File(<<HeaderRow>> \o [i \in 1..Len(tasks) |-> FormatTaskRow(tasks[i])])

-----------------------------------------------------------------------------
(* Codec round trip: write_tasks(records) followed by read_tasks() *)

Dict(id, task, description, created) ==
    [h \in HeaderSet |->
        CASE h = "id" -> id
          [] h = "task" -> task
          [] h = "priority" -> <<"Medium">>
          [] h = "description" -> description
          [] h = "created_date" -> created
          [] h = "status" -> <<"Not", Space, "Started">>
          [] h \in {"opened_date", "completion_date"} -> None
          [] OTHER -> Empty]

\* records as Task.to_dict (models.py:179-191) or add_task produce them:
\* every one passes Task.validate
CodecTasks ==
    { Dict(id, task, d, c) :
        id \in {<<"1">>, <<"2">>},
        task \in {<<"t">>, <<Space, "t">>},
        d \in {Empty, <<"d">>},
        c \in {IsoText(0), DateTime(0)} }

RECURSIVE SeqsUpTo(_, _)
SeqsUpTo(S, n) ==
    IF n = 0 THEN {<< >>}
    ELSE LET shorter == SeqsUpTo(S, n - 1)
         IN  shorter \cup {Append(s, x) : s \in {t \in shorter : Len(t) = n - 1}, x \in S}

(* Request threads and the temporary files of write_tasks *)

Workers == {1, 2}

\* the path of the table file
TablePath == "tasks.csv"

\* a write_tasks that opens the table file itself instead of a new file
TempName_InPlace(t) == TablePath

\* temp_file.name: a new file of the table's directory (lines 197-203)
TempName(t) == "tmp" \o ToString(t)

TempNames == {TempName(t) : t \in Workers}

\* os.unlink left out of the clean-up
CleanupTemp_Keep(f) == f

\* lines 221-223: close the temporary file and unlink it
CleanupTemp(f) == Missing

NoHandle == [open |-> FALSE, live |-> FALSE, rows |-> << >>, pos |-> 0]
NoOutcome == [ok |-> TRUE, error |-> "", phase |-> "", tasks |-> << >>]

IdleThread ==
    [pc |-> "idle", op |-> "none", arg |-> << >>, got |-> << >>, wpos |-> 0,
     hnd |-> NoHandle, out |-> NoOutcome, touched |-> FALSE, seen |-> {}, n |-> 0]

ConcIdle ==
    /\ th = [t \in Workers |-> IdleThread]
    /\ tmp = [name \in TempNames |-> Missing]

\* the state CSVManager.__init__ and CSVExportImport.__init__ leave:
\* a header-only table (csv_manager.py:39), an empty backup directory
SeqIdle ==
    /\ file = File(<<HeaderRow>>)
    /\ backups = << >>
    /\ now = 0
    /\ nuuid = 0
    /\ res = [op |-> "init"]
    /\ steps = 0
    /\ snap = << >>

CodecIdle ==
    /\ cIn = << >>
    /\ cOut = Pending

PathIdle ==
    /\ disk = {}
    /\ pres = [op |-> "init"]

HttpIdle ==
    /\ resp = [op |-> "init"]
    /\ lastMod = << >>

ReadIdle ==
    rd = [op |-> "init", done |-> FALSE, ok |-> TRUE, error |-> "",
          tasks |-> << >>, output |-> << >>]

\* no thread is inside _file_lock; the platform has fcntl
NoAttempt ==
    [pc |-> "idle", op |-> "none", retry_count |-> 0, locked |-> FALSE,
     raised |-> FALSE]

LockIdle == lk = [platform |-> "fcntl", thr |-> [t \in Workers |-> NoAttempt]]

CodecInit ==
    /\ cIn \in SeqsUpTo(CodecTasks, MaxRecs)
    /\ cOut = Pending
    /\ SeqIdle
    /\ ConcIdle
    /\ PathIdle
    /\ HttpIdle
    /\ ReadIdle
    /\ LockIdle

\* write_tasks(cIn); read_tasks()
RoundTrip ==
    /\ ~cOut.done
    /\ file' = WriteTasks(cIn)
    /\ cOut' = Returned(ReadTasks(file').tasks)
    /\ UNCHANGED <<cIn, nonCodecVars>>

CodecNext == RoundTrip

SpecCodec == CodecInit /\ [][CodecNext]_vars

\* a record with its timestamps in string form (isoformat of a datetime)
StringForm(task) ==
    [h \in DOMAIN task |->
        IF h \in DateFields /\ task[h] # None /\ IsDateTime(task[h])
        THEN isoformat(task[h]) ELSE task[h]]

\* C1: for every sequence of valid records, write_tasks(records) followed by
\* read_tasks() returns the same records, field for field and in the same
\* order, timestamps compared in their string form.
C1_RoundTrip ==
    cOut.done => cOut.tasks = [i \in 1..Len(cIn) |-> StringForm(cIn[i])]

-----------------------------------------------------------------------------
(* Table store, CRUD: csv_manager.py:231-302.  Each operator computes the  *)
(* outcome of one call on table file f.                                    *)

\* index of the first record whose id is task_id, 0 when there is none
RECURSIVE FirstWithId(_, _, _)
FirstWithId(tasks, task_id, i) ==
    IF i > Len(tasks) THEN 0
    ELSE IF tasks[i]["id"] = task_id THEN i
    ELSE FirstWithId(tasks, task_id, i + 1)

\* a duplicate check that looks at the last record only
HasId_LastOnly(tasks, id) == tasks # << >> /\ tasks[Len(tasks)]["id"] = id

\* any(task['id'] == task_data['id'] for task in tasks)
HasId(tasks, id) == \E i \in 1..Len(tasks) : tasks[i]["id"] = id

\* add_task: 'id' not in task_data or not task_data['id']
NeedsId(task_data) == "id" \notin DOMAIN task_data \/ ~Truthy(task_data["id"])

\* add_task, lines 236-242: task_data with its id and created_date filled in
Prepared(task_data, k, t) ==
    LET d1 == IF NeedsId(task_data)
              THEN SetKey(task_data, "id", Uuid(k + 1)) ELSE task_data
    IN  IF "created_date" \notin DOMAIN d1 \/ ~Truthy(d1["created_date"])
        THEN SetKey(d1, "created_date", DateTime(t)) ELSE d1

\* add_task(task_data), with k identifiers drawn so far, at clock second t
AddTask(f, task_data, k, t) ==
    LET d2 == Prepared(task_data, k, t)
        r == ReadTasks(f)
        k2 == IF NeedsId(task_data) THEN k + 1 ELSE k
    IN  IF ~r.ok
        THEN [ok |-> FALSE, error |-> "StorageCorrupt", id |-> d2["id"],
              file |-> EnsureCsvExists(f), nuuid |-> k2]
        ELSE IF HasId(r.tasks, d2["id"])
        THEN [ok |-> FALSE, error |-> "DuplicateId", id |-> d2["id"],
              file |-> EnsureCsvExists(f), nuuid |-> k2]
        ELSE [ok |-> TRUE, error |-> "", id |-> d2["id"],
              file |-> WriteTasks(Append(r.tasks, d2)), nuuid |-> k2]

\* an update_task that appends the record when no record has the id
UpdateTask_Upsert(f, task_id, task_data) ==
    LET r == ReadTasks(f)
        i == FirstWithId(r.tasks, task_id, 1)
        d1 == SetKey(task_data, "id", task_id)
        d2 == IF "created_date" \notin DOMAIN task_data
              THEN SetKey(d1, "created_date", r.tasks[i]["created_date"]) ELSE d1
    IN  IF ~r.ok
        THEN [ok |-> FALSE, error |-> "StorageCorrupt", found |-> FALSE,
              file |-> EnsureCsvExists(f)]
        ELSE IF i = 0
        THEN [ok |-> TRUE, error |-> "", found |-> FALSE,
              file |-> WriteTasks(Append(r.tasks, d1))]
        ELSE [ok |-> TRUE, error |-> "", found |-> TRUE,
              file |-> WriteTasks([r.tasks EXCEPT ![i] = d2])]

\* an update_task that stores the record with the id it carries
UpdateTask_KeepId(f, task_id, task_data) ==
    LET r == ReadTasks(f)
        i == FirstWithId(r.tasks, task_id, 1)
        d1 == IF "id" \in DOMAIN task_data THEN task_data
              ELSE SetKey(task_data, "id", task_id)
        d2 == IF "created_date" \notin DOMAIN task_data
              THEN SetKey(d1, "created_date", r.tasks[i]["created_date"]) ELSE d1
    IN  IF ~r.ok
        THEN [ok |-> FALSE, error |-> "StorageCorrupt", found |-> FALSE,
              file |-> EnsureCsvExists(f)]
        ELSE IF i = 0
        THEN [ok |-> TRUE, error |-> "", found |-> FALSE,
              file |-> EnsureCsvExists(f)]
        ELSE [ok |-> TRUE, error |-> "", found |-> TRUE,
              file |-> WriteTasks([r.tasks EXCEPT ![i] = d2])]

\* update_task(task_id, task_data); found is the value returned
UpdateTask(f, task_id, task_data) ==
    LET r == ReadTasks(f)
        i == FirstWithId(r.tasks, task_id, 1)
        d1 == SetKey(task_data, "id", task_id)
        d2 == IF "created_date" \notin DOMAIN task_data
              THEN SetKey(d1, "created_date", r.tasks[i]["created_date"]) ELSE d1
    IN  IF ~r.ok
        THEN [ok |-> FALSE, error |-> "StorageCorrupt", found |-> FALSE,
              file |-> EnsureCsvExists(f)]
        ELSE IF i = 0
        THEN [ok |-> TRUE, error |-> "", found |-> FALSE,
              file |-> EnsureCsvExists(f)]
        ELSE [ok |-> TRUE, error |-> "", found |-> TRUE,
              file |-> WriteTasks([r.tasks EXCEPT ![i] = d2])]

\* a delete_task that writes the table back also when nothing was removed
DeleteTask_Rewrite(f, task_id) ==
    LET r == ReadTasks(f)
        rest == SelectSeq(r.tasks, LAMBDA task : task["id"] # task_id)
    IN  IF ~r.ok
        THEN [ok |-> FALSE, error |-> "StorageCorrupt", found |-> FALSE,
              file |-> EnsureCsvExists(f)]
        ELSE [ok |-> TRUE, error |-> "", found |-> Len(rest) # Len(r.tasks),
              file |-> WriteTasks(rest)]

\* delete_task(task_id); found is the value returned
DeleteTask(f, task_id) ==
    LET r == ReadTasks(f)
        rest == SelectSeq(r.tasks, LAMBDA task : task["id"] # task_id)
    IN  IF ~r.ok
        THEN [ok |-> FALSE, error |-> "StorageCorrupt", found |-> FALSE,
              file |-> EnsureCsvExists(f)]
        ELSE IF Len(rest) = Len(r.tasks)
        THEN [ok |-> TRUE, error |-> "", found |-> FALSE,
              file |-> EnsureCsvExists(f)]
        ELSE [ok |-> TRUE, error |-> "", found |-> TRUE, file |-> WriteTasks(rest)]

-----------------------------------------------------------------------------
(* Backup manager: csv_export_import.py:163-215.  A backup file is named   *)
(* tasks_backup_<YYYYMMDD_HHMMSS>.csv: its name is the clock second.       *)

\* a create_backup that leaves an existing file of that name as it is
CreateBackup_KeepExisting(f, bk, t) ==
    [path |-> t,
     backups |-> bk @@ (t :> (IF f.exists THEN f ELSE File(<<HeaderRow>>)))]

\* a create_backup that writes the header row and no more
CreateBackup_HeaderOnly(f, bk, t) ==
    [path |-> t, backups |-> (t :> File(<<HeaderRow>>)) @@ bk]

\* create_backup at clock second t: copy2 overwrites a file of that name
CreateBackup(f, bk, t) ==
    [path |-> t,
     backups |-> (t :> (IF f.exists THEN f ELSE File(<<HeaderRow>>))) @@ bk]

\* a restore_from_backup that takes the safety backup before it looks for path
RestoreFromBackup_BackupFirst(f, bk, t, path) ==
    LET b == CreateBackup(f, bk, t)
    IN  IF path \notin DOMAIN b.backups
        THEN [ok |-> FALSE, error |-> "BackupNotFound", file |-> f,
              backups |-> b.backups]
        ELSE [ok |-> TRUE, error |-> "", file |-> b.backups[path],
              backups |-> b.backups]

\* restore_from_backup(path) at clock second t
RestoreFromBackup(f, bk, t, path) ==
    IF path \notin DOMAIN bk
    THEN [ok |-> FALSE, error |-> "BackupNotFound", file |-> f, backups |-> bk]
    ELSE LET b == CreateBackup(f, bk, t)
         IN  [ok |-> TRUE, error |-> "", file |-> b.backups[path],
              backups |-> b.backups]

-----------------------------------------------------------------------------
(* Import: csv_export_import.py:67-161.  The content is given as the rows  *)
(* csv.DictReader yields: dicts from the content's column names to cells.  *)

\* lines 93-96: drop None values, strip the others
CleanRow(row) ==
    [key \in {x \in DOMAIN row : row[x] # None} |->
        IF row[key] # Empty THEN Strip(row[key]) ELSE Empty]

\* lines 107-117: setdefault for the optional fields, stamp created_date
WithDefaults(task_data, t) ==
    LET d == task_data @@ [h \in {"priority"} |-> <<"Medium">>]
                       @@ [h \in {"status"} |-> <<"Not", Space, "Started">>]
                       @@ [h \in {"description", "assignee", "category", "tags"}
                             |-> Empty]
    IN  IF ~Truthy(Get(d, "created_date", None))
        THEN SetKey(d, "created_date", IsoText(t)) ELSE d

\* line 99: not task_data.get('task')
MissingTask(task_data) == ~Truthy(Get(task_data, "task", None))

\* an import that keeps the rows without a task
ImportedTasks_All(rows, t) ==
    [i \in 1..Len(rows) |-> WithDefaults(CleanRow(rows[i]), t)]

\* lines 90-126: the rows kept (imported_tasks)
RECURSIVE ImportedTasks(_, _)
ImportedTasks(rows, t) ==
    IF rows = << >> THEN << >>
    ELSE LET task_data == CleanRow(Head(rows))
             rest == ImportedTasks(Tail(rows), t)
         IN  IF MissingTask(task_data) THEN rest
             ELSE <<WithDefaults(task_data, t)>> \o rest

\* an import that records no row in error_tasks
ErrorRows_None(rows) == {}

\* lines 100-105: the row numbers recorded in error_tasks (header is row 1)
ErrorRows(rows) == {i + 1 : i \in {j \in 1..Len(rows) : MissingTask(CleanRow(rows[j]))}}

\* lines 146-147: add_task for each new task, until one raises
RECURSIVE AddAll(_, _, _, _)
AddAll(f, tasks, k, t) ==
    IF tasks = << >> THEN [ok |-> TRUE, file |-> f, nuuid |-> k]
    ELSE LET a == AddTask(f, Head(tasks), k, t)
         IN  IF ~a.ok THEN [ok |-> FALSE, file |-> a.file, nuuid |-> a.nuuid]
             ELSE AddAll(a.file, Tail(tasks), a.nuuid, t)

\* import_tasks_from_csv(content, replace_existing) at clock second t
ImportTasks(f, bk, k, t, rows, replace_existing) ==
    LET b == CreateBackup(f, bk, t)
        imported_tasks == ImportedTasks(rows, t)
        r == ReadTasks(f)
        existing_ids == {Get(r.tasks[i], "id", None) : i \in 1..Len(r.tasks)}
        new_tasks == SelectSeq(imported_tasks,
                               LAMBDA task : Get(task, "id", None) \notin existing_ids)
        a == AddAll(EnsureCsvExists(f), new_tasks, k, t)
        failed == [ok |-> FALSE, error |-> "CSVExportImportError", imported |-> 0,
                   skipped |-> 0, errors |-> 0, error_rows |-> {},
                   backup_path |-> b.path, backups |-> b.backups]
    IN  IF replace_existing
        THEN [ok |-> TRUE, error |-> "", imported |-> Len(imported_tasks),
              skipped |-> 0, errors |-> Cardinality(ErrorRows(rows)),
              error_rows |-> ErrorRows(rows), backup_path |-> b.path,
              backups |-> b.backups, file |-> WriteTasks(imported_tasks),
              nuuid |-> k]
        ELSE IF ~r.ok
        THEN failed @@ [file |-> EnsureCsvExists(f), nuuid |-> k]
        ELSE IF ~a.ok
        THEN failed @@ [file |-> a.file, nuuid |-> a.nuuid]
        ELSE [ok |-> TRUE, error |-> "", imported |-> Len(new_tasks),
              skipped |-> Len(imported_tasks) - Len(new_tasks),
              errors |-> Cardinality(ErrorRows(rows)),
              error_rows |-> ErrorRows(rows), backup_path |-> b.path,
              backups |-> b.backups, file |-> a.file, nuuid |-> a.nuuid]

-----------------------------------------------------------------------------
(* Sequential use of the store: one call at a time, each run to its end.   *)

\* explicit ids a caller supplies: plain ones and one padded with a blank
PlainIds == {<<"1">>}
ExplicitIds == PlainIds \cup {<<Space, "1">>}

\* task_data handed to add_task: a title, with or without an id
AddInputs ==
    {[task |-> <<"t">>]} \cup {[task |-> <<"t">>, id |-> id] : id \in ExplicitIds}

\* task_data handed to update_task: a new title, with or without an id, or
\* with a created_date that is None, '' or a date text
UpdateInputs ==
    {[task |-> <<"u">>]} \cup {[task |-> <<"u">>, id |-> id] : id \in PlainIds}
        \cup {[task |-> <<"u">>, created_date |-> d] :
                  d \in {None, Empty, <<"T", "x">>}}

\* import contents whose columns are id and task: a row, the same row
\* twice, a row without id after a row without task, only a row without
\* task, a row cut short before its task between two equal rows, a row
\* without task, a row and a row without id
ImportContents ==
    LET row == [id |-> <<"1">>, task |-> <<"t">>]
        noId == [id |-> Empty, task |-> <<"t">>]
        noTask == [id |-> <<"1">>, task |-> Empty]
        short == [id |-> <<"1">>, task |-> None]
    IN  {<<row>>, <<row, row>>, <<noTask, noId>>, <<noTask>>, <<row, short, row>>,
         <<noTask, row, noId>>}

\* the records of the table file f as read_tasks returns them
Table(f) == ReadTasks(f).tasks

\* the ids of the records of a table
IdsOf(tasks) == {tasks[i]["id"] : i \in 1..Len(tasks)}

\* an id no caller ever adds
AbsentId == <<"2">>

\* ids to look up: the plain ones, the absent one and those in the table
TargetIds == PlainIds \cup {AbsentId} \cup IdsOf(Table(file))

Add(task_data) ==
    /\ steps < MaxSteps /\ steps' = steps + 1
    /\ LET a == AddTask(file, task_data, nuuid, now)
       IN  /\ file' = a.file
           /\ nuuid' = a.nuuid
           /\ res' = [op |-> "add", ok |-> a.ok, error |-> a.error,
                      arg |-> Get(task_data, "id", None), id |-> a.id]
    /\ UNCHANGED <<backups, now, snap, nonSeqVars>>

Update(task_id, task_data) ==
    /\ steps < MaxSteps /\ steps' = steps + 1
    /\ LET u == UpdateTask(file, task_id, task_data)
       IN  /\ file' = u.file
           /\ res' = [op |-> "update", ok |-> u.ok, error |-> u.error,
                      arg |-> task_id, found |-> u.found,
                      given |-> Get(task_data, "id", None),
                      task |-> task_data["task"],
                      created |-> Get(task_data, "created_date", None)]
    /\ UNCHANGED <<backups, now, nuuid, snap, nonSeqVars>>

Delete(task_id) ==
    /\ steps < MaxSteps /\ steps' = steps + 1
    /\ LET d == DeleteTask(file, task_id)
       IN  /\ file' = d.file
           /\ res' = [op |-> "delete", ok |-> d.ok, error |-> d.error,
                      arg |-> task_id, found |-> d.found]
    /\ UNCHANGED <<backups, now, nuuid, snap, nonSeqVars>>

\* create_backup() called by a user; snap keeps the content of the first
\* call that returned each name
Backup ==
    /\ steps < MaxSteps /\ steps' = steps + 1
    /\ LET b == CreateBackup(file, backups, now)
       IN  /\ backups' = b.backups
           /\ snap' = IF b.path \in DOMAIN snap THEN snap
                      ELSE (b.path :> file) @@ snap
           /\ res' = [op |-> "backup", ok |-> TRUE, error |-> "", path |-> b.path]
    /\ UNCHANGED <<file, now, nuuid, nonSeqVars>>

Restore(path) ==
    /\ steps < MaxSteps /\ steps' = steps + 1
    /\ LET r == RestoreFromBackup(file, backups, now, path)
       IN  /\ file' = r.file
           /\ backups' = r.backups
           /\ res' = [op |-> "restore", ok |-> r.ok, error |-> r.error,
                      path |-> path]
    /\ UNCHANGED <<now, nuuid, snap, nonSeqVars>>

Import(rows, replace_existing) ==
    /\ steps < MaxSteps /\ steps' = steps + 1
    /\ LET m == ImportTasks(file, backups, nuuid, now, rows, replace_existing)
       IN  /\ file' = m.file
           /\ backups' = m.backups
           /\ nuuid' = m.nuuid
           /\ res' = [op |-> "import", ok |-> m.ok, error |-> m.error,
                      replace |-> replace_existing, imported |-> m.imported,
                      skipped |-> m.skipped, errors |-> m.errors,
                      error_rows |-> m.error_rows, rows |-> rows,
                      backup_path |-> m.backup_path]
    /\ UNCHANGED <<now, snap, nonSeqVars>>

\* a second passes
Tick ==
    /\ steps < MaxSteps /\ steps' = steps + 1
    /\ now' = now + 1
    /\ UNCHANGED <<file, backups, nuuid, res, snap, nonSeqVars>>

Init ==
    SeqIdle /\ CodecIdle /\ ConcIdle /\ PathIdle /\ HttpIdle /\ ReadIdle /\ LockIdle

Next ==
    \/ \E task_data \in AddInputs : Add(task_data)
    \/ \E task_id \in TargetIds, task_data \in UpdateInputs :
          Update(task_id, task_data)
    \/ \E task_id \in TargetIds : Delete(task_id)
    \/ Backup
    \/ \E path \in 0..now : Restore(path)
    \/ \E rows \in ImportContents, replace_existing \in BOOLEAN :
          Import(rows, replace_existing)
    \/ Tick

Spec == Init /\ [][Next]_vars

\* C2: after any sequential sequence of add, update, delete, import and
\* restore operations starting from an empty table, every record read_tasks
\* returns has a non-empty id and no two records share an id.
C2_UniqueIds ==
    LET tasks == Table(file)
    IN  /\ \A i \in 1..Len(tasks) : Truthy(tasks[i]["id"])
        /\ \A i, j \in 1..Len(tasks) : i # j => tasks[i]["id"] # tasks[j]["id"]

\* the step is a call of the storage operation op
Called(op) == steps' = steps + 1 /\ now' = now /\ res'.op = op

\* C3: add_task with an explicit id that a record of the current table has
\* fails with the duplicate-id CSVManagerError and leaves the table file
\* unchanged.
C3_DuplicateAdd ==
    [][(Called("add") /\ Truthy(res'.arg) /\ res'.arg \in IdsOf(Table(file)))
          => (~res'.ok /\ res'.error = "DuplicateId" /\ file' = file)]_vars

\* an add_task has just been refused for a duplicate id, with records stored
C3_Witness ==
    res.op = "add" /\ res.error = "DuplicateId" /\ Len(Table(file)) >= 1

\* C5: create_backup() returning path p, then any mutations, backups and
\* restores, then restore_from_backup(p) leaves the table file with the
\* content it had when create_backup() was called, however little clock time
\* separates the operations.
C5_RestoreReproducesBackup ==
    [][(Called("restore") /\ res'.ok /\ res'.path \in DOMAIN snap)
          => file' = snap[res'.path]]_vars

\* C10: update_task for an id no record of the table has returns False and
\* leaves the table file unchanged.
C10_UpdateMissing ==
    [][(Called("update") /\ res'.arg \notin IdsOf(Table(file)))
          => (res'.ok /\ ~res'.found /\ file' = file)]_vars

\* an update_task of a stored table has just returned False
C10_Witness ==
    res.op = "update" /\ res.ok /\ ~res.found /\ Len(Table(file)) >= 1

\* the records of a table other than those with the id, in order
Others(tasks, id) == SelectSeq(tasks, LAMBDA task : task["id"] # id)

\* C11: a successful delete_task(id) decreases the number of records by
\* exactly one, and every other record remains present, unaltered and in the
\* same relative order.
C11_DeleteRemovesOne ==
    [][(Called("delete") /\ res'.ok /\ res'.found)
          => (/\ Len(Table(file')) = Len(Table(file)) - 1
              /\ Table(file') = Others(Table(file), res'.arg))]_vars

\* C12: delete_task for an id no record of the table has returns False and
\* leaves the table file unchanged.
C12_DeleteMissing ==
    [][(Called("delete") /\ res'.arg \notin IdsOf(Table(file)))
          => (res'.ok /\ ~res'.found /\ file' = file)]_vars

\* a delete_task of a stored table has just returned False
C12_Witness ==
    res.op = "delete" /\ res.ok /\ ~res.found /\ Len(Table(file)) >= 1

\* the data rows of an import content whose task field is missing or empty
Untitled(rows) ==
    {k \in 1..Len(rows) : "task" \notin DOMAIN rows[k] \/ rows[k]["task"] \in {None, Empty}}

\* C15: for any import content, every data row whose task field is missing
\* or empty is counted in errors and recorded with its row number (the k-th
\* data row is row k+1), is kept out of the table, and every other row is
\* imported or skipped; errors is exactly the number of such rows.
C15_ImportErrorRows ==
    [][(Called("import") /\ Untitled(res'.rows) # {})
          => LET rows == res'.rows
                 new == Table(file')
             IN  /\ res'.ok
                 /\ res'.errors = Cardinality(Untitled(rows))
                 /\ res'.error_rows = {k + 1 : k \in Untitled(rows)}
                 /\ res'.imported + res'.skipped = Len(rows) - res'.errors
                 /\ Len(new) = (IF res'.replace THEN 0 ELSE Len(Table(file)))
                                  + res'.imported
                 /\ \A i \in 1..Len(new) : Truthy(new[i]["task"])]_vars

C16_RestoreMissing ==
    [][(Called("restore") /\ res'.path \notin DOMAIN backups)
          => (/\ ~res'.ok /\ res'.error = "BackupNotFound"
              /\ file' = file
              /\ backups' = backups)]_vars

\* a restore_from_backup of a path that is no backup has just failed, with
\* records in the table and a backup in the directory
C16_Witness ==
    /\ res.op = "restore" /\ ~res.ok
    /\ Len(Table(file)) >= 1
    /\ DOMAIN backups # {}

\* C17: every successful restore_from_backup(path) is undoable: once it has
\* returned, the backup directory holds a safety backup whose content is the
\* table file of just before the restore, and the table file has the content
\* the file at path had when restore was called.
C17_RestoreUndoable ==
    [][(Called("restore") /\ res'.ok)
          => (/\ \E p \in DOMAIN backups' : backups'[p] = file
              /\ file' = backups[res'.path])]_vars

\* C18: import_tasks_from_csv takes a backup before it touches the table, in
\* both modes and also when every row is an error: a backup file holds the
\* table file as it was before the import, and the backup_path returned
\* names it.
C18_ImportBacksUpFirst ==
    [][Called("import")
          => \E p \in DOMAIN backups' :
                /\ backups'[p] = file
                /\ res'.ok => res'.backup_path = p]_vars

\* an import whose rows are all errors has returned, from a table that held
\* records, in the second of an earlier backup
C18_Witness ==
    /\ res.op = "import" /\ res.ok
    /\ res.errors = Len(res.rows)
    /\ Len(Table(backups[res.backup_path])) >= 1
    /\ res.backup_path \in DOMAIN snap

\* C25: once a backup file has been created its content never changes and
\* it is never removed except by an explicit delete_backup of that file: no
\* later create_backup, import or restore, also one issued within the same
\* clock second, overwrites an existing backup.
C25_BackupsNeverOverwritten ==
    [][\A p \in DOMAIN backups :
          p \in DOMAIN backups' /\ backups'[p] = backups[p]]_vars

\* the rows of an import content that carry a title, by position
Titled(rows) == {k \in 1..Len(rows) : k \notin Untitled(rows)}

\* the id of an import row as the import compares it
RowId(row) == IF "id" \in DOMAIN row /\ row["id"] # None THEN Strip(row["id"]) ELSE None

\* the titled rows whose id is the id of a record of the table
Colliding(rows, tasks) == {k \in Titled(rows) : RowId(rows[k]) \in IdsOf(tasks)}

\* C26: with replace_existing = false every import row whose id equals the
\* id of a record already in the table is counted as skipped and not
\* stored, every other valid row is appended via add_task, all records of
\* before stay unaltered and in place, and imported equals the number of
\* rows appended.
C26_MergeImport ==
    [][(Called("import") /\ ~res'.replace)
          => LET old == Table(file)
                 new == Table(file')
                 rows == res'.rows
             IN  /\ res'.ok
                 /\ res'.skipped = Cardinality(Colliding(rows, old))
                 /\ res'.imported = Cardinality(Titled(rows) \ Colliding(rows, old))
                 /\ Len(new) = Len(old) + res'.imported
                 /\ SubSeq(new, 1, Len(old)) = old]_vars

\* C27: row-level problems in import content never abort the import: for any
\* content, also one that repeats an id with replace_existing = false,
\* import_tasks_from_csv returns a result that reports the problem rows
\* instead of raising, and it never raises after having appended only part
\* of the rows.
C27_ImportNeverAborts ==
    [][Called("import")
          => (/\ res'.ok
              /\ ~res'.ok => Table(file') = Table(file))]_vars

\* the rows of an import content that carry a title, in input order
ValidRows(rows) ==
    SelectSeq(rows, LAMBDA row : /\ "task" \in DOMAIN row
                                 /\ row["task"] # None
                                 /\ Strip(row["task"]) # Empty)

\* C28: with replace_existing = true the table after import_tasks_from_csv
\* consists of exactly the valid imported rows, in input order, and of none
\* of the records of before; imported equals the number of valid rows and
\* skipped is 0.
C28_ReplaceImport ==
    [][(Called("import") /\ res'.replace)
          => LET new == Table(file')
                 valid == ValidRows(res'.rows)
             IN  /\ res'.ok
                 /\ res'.imported = Len(valid)
                 /\ res'.skipped = 0
                 /\ Len(new) = Len(valid)
                 /\ \A i \in 1..Len(valid) :
                       /\ new[i]["task"] = Strip(valid[i]["task"])
                       /\ new[i]["id"] = IF RowId(valid[i]) = Empty THEN None
                                         ELSE RowId(valid[i])]_vars

\* a replacing import has stored its one valid row, without id, in place of
\* a table that held a record, and has reported the other row as an error
C28_Witness ==
    /\ res.op = "import" /\ res.ok /\ res.replace
    /\ res.imported = 1 /\ res.errors = 1
    /\ Len(Table(backups[res.backup_path])) >= 1
    /\ Len(Table(file)) = 1
    /\ Table(file)[1]["id"] = None

\* C29: a successful update_task keeps the stored record's created_date
\* whenever the caller supplies no created_date value (key absent, or present
\* but empty or None); the stored created_date changes only when the caller
\* supplies a non-empty one.
C29_UpdateKeepsCreatedDate ==
    [][(Called("update") /\ res'.ok /\ res'.found /\ ~Truthy(res'.created))
          => LET old == Table(file)
                 new == Table(file')
                 i == FirstWithId(old, res'.arg, 1)
             IN  new[i]["created_date"] = old[i]["created_date"]]_vars

-----------------------------------------------------------------------------
(* Concurrent use: request threads stepping through read_tasks             *)
(* (csv_manager.py:154-189), add_task (231-257) and write_tasks (191-229). *)
(* A step is one file-system call.  A reader holds an open handle: it sees *)
(* the file it opened, also after another file is renamed over the path.   *)

\* the file at a path
FileAt(name) == IF name = TablePath THEN file ELSE tmp[name]

\* the rows thread t's handle shows: those of the file it opened
View(t) == IF th[t].hnd.live THEN file.rows ELSE th[t].hnd.rows

\* a rename over the table path: open handles keep the file they opened
Detached(thr) ==
    [u \in Workers |->
        IF thr[u].hnd.open /\ thr[u].hnd.live
        THEN [thr[u] EXCEPT !.hnd.live = FALSE, !.hnd.rows = file.rows]
        ELSE thr[u]]

\* history: every call in progress has seen the table content f in place
Observed(thr, f) ==
    [u \in Workers |->
        IF thr[u].pc \notin {"idle", "done"}
        THEN [thr[u] EXCEPT !.seen = @ \cup {f}] ELSE thr[u]]

\* thread t stores content at a path, in place
StoreAt(t, name, content, thr) ==
    IF name = TablePath
    THEN /\ file' = content
         /\ tmp' = tmp
         /\ th' = [thr EXCEPT ![t].touched = TRUE]
    ELSE /\ tmp' = [tmp EXCEPT ![name] = content]
         /\ file' = file
         /\ th' = thr

\* thread t's call ends with an error raised in the given phase
Raised(t, phase) ==
    [th EXCEPT ![t].pc = "done", ![t].hnd = NoHandle,
               ![t].out = [ok |-> FALSE, error |-> "CSVManagerError",
                           phase |-> phase, tasks |-> << >>]]

\* a thread takes up read_tasks() or add_task(task_data)
Start(t, op, task_data) ==
    /\ th[t].pc \in {"idle", "done"}
    /\ th[t].n < MaxOps
    /\ th' = [th EXCEPT ![t] =
                [IdleThread EXCEPT
                    !.pc = "ensure", !.op = op, !.n = th[t].n + 1,
                    !.seen = {file},
                    !.arg = IF op = "add" THEN Prepared(task_data, nuuid, now)
                            ELSE << >>]]
    /\ nuuid' = IF op = "add" /\ NeedsId(task_data) THEN nuuid + 1 ELSE nuuid
    /\ UNCHANGED <<file, tmp, nonConcVars>>

\* read_tasks, line 163: _ensure_csv_exists writes the header in place
Ensure(t) ==
    /\ th[t].pc = "ensure"
    /\ file' = EnsureCsvExists(file)
    /\ th' = [th EXCEPT ![t].pc = "validate",
                        ![t].touched = (file' # file)]
    /\ UNCHANGED <<tmp, nuuid, nonConcVars>>

\* read_tasks, lines 166-167: _validate_csv_structure
Validate(t) ==
    /\ th[t].pc = "validate"
    /\ th' = IF file.exists /\ ValidateCsvStructure(file)
             THEN [th EXCEPT ![t].pc = "open"]
             ELSE Raised(t, "read")
    /\ UNCHANGED <<file, tmp, nuuid, nonConcVars>>

\* read_tasks, lines 169-170: open the table file, take the shared lock
Open(t) ==
    /\ th[t].pc = "open"
    /\ th' = IF file.exists
             THEN [th EXCEPT ![t].pc = "read",
                             ![t].hnd = [open |-> TRUE, live |-> TRUE,
                                         rows |-> << >>, pos |-> 1]]
             ELSE Raised(t, "read")
    /\ UNCHANGED <<file, tmp, nuuid, nonConcVars>>

\* read_tasks, lines 171-184: the next row of the handle; the header is
\* skipped, a blank or malformed row dropped; at the end the records are
\* returned (read_tasks) or checked for the id (add_task, lines 248-249)
ReadRow(t) ==
    /\ th[t].pc = "read"
    /\ LET rows == View(t)
           pos == th[t].hnd.pos
           row == rows[pos]
       IN  th' =
             IF pos = 1 /\ rows = << >> THEN Raised(t, "read")
             ELSE IF pos = 1 THEN [th EXCEPT ![t].hnd.pos = 2]
             ELSE IF pos <= Len(rows)
             THEN [th EXCEPT ![t].hnd.pos = pos + 1,
                             ![t].got = IF AnyCell(row) /\ RowParses(row)
                                        THEN Append(@, ParseTaskRow(row)) ELSE @]
             ELSE IF th[t].op = "read"
             THEN [th EXCEPT ![t].pc = "done", ![t].hnd = NoHandle,
                             ![t].out = [ok |-> TRUE, error |-> "", phase |-> "read",
                                         tasks |-> th[t].got]]
             ELSE IF HasId(th[t].got, th[t].arg["id"])
             THEN [th EXCEPT ![t].pc = "done", ![t].hnd = NoHandle,
                             ![t].out = [ok |-> FALSE, error |-> "DuplicateId",
                                         phase |-> "check", tasks |-> << >>]]
             ELSE [th EXCEPT ![t].pc = "mktemp", ![t].hnd = NoHandle,
                             ![t].got = Append(@, th[t].arg)]
    /\ UNCHANGED <<file, tmp, nuuid, nonConcVars>>

\* write_tasks, lines 197-203: create the temporary file, empty
MkTemp(t) ==
    /\ th[t].pc = "mktemp"
    /\ StoreAt(t, TempName(t), File(<< >>), [th EXCEPT ![t].pc = "write"])
    /\ UNCHANGED <<nuuid, nonConcVars>>

\* write_tasks, lines 206-212: under the exclusive lock of the temporary
\* file, write the header row, then one formatted row per task
WriteRow(t) ==
    /\ th[t].pc = "write"
    /\ LET k == th[t].wpos
           f == FileAt(TempName(t))
           row == IF k = 0 THEN HeaderRow ELSE FormatTaskRow(th[t].got[k])
       IN  IF k <= Len(th[t].got)
           THEN StoreAt(t, TempName(t), File(Append(f.rows, row)),
                        [th EXCEPT ![t].wpos = k + 1])
           ELSE /\ th' = [th EXCEPT ![t].pc = "move"]
                /\ UNCHANGED <<file, tmp>>
    /\ UNCHANGED <<nuuid, nonConcVars>>

\* a write_tasks that closes the temporary file and leaves it where it is
Move_NoRename(t) ==
    /\ th[t].pc = "move"
    /\ th' = [th EXCEPT ![t].pc = "done",
                        ![t].out = [ok |-> TRUE, error |-> "", phase |-> "write",
                                    tasks |-> << >>]]
    /\ UNCHANGED <<file, tmp, nuuid, nonConcVars>>

\* write_tasks, lines 214-217: close the temporary file and rename it over
\* the table file
Move(t) ==
    /\ th[t].pc = "move"
    /\ LET name == TempName(t)
           done == [th EXCEPT ![t].pc = "done", ![t].touched = TRUE,
                              ![t].out = [ok |-> TRUE, error |-> "",
                                          phase |-> "write", tasks |-> << >>]]
       IN  IF name = TablePath
           THEN /\ th' = Observed(done, file)
                /\ UNCHANGED <<file, tmp>>
           ELSE /\ file' = tmp[name]
                /\ tmp' = [tmp EXCEPT ![name] = Missing]
                /\ th' = Observed(Detached(done), file')
    /\ UNCHANGED <<nuuid, nonConcVars>>

\* write_tasks: creating the temporary file, formatting or writing a row,
\* closing or renaming raises
Fail(t) ==
    /\ th[t].pc \in {"mktemp", "write", "move"}
    /\ th' = IF th[t].pc = "mktemp" THEN Raised(t, "write")
             ELSE [th EXCEPT ![t].pc = "cleanup"]
    /\ UNCHANGED <<file, tmp, nuuid, nonConcVars>>

\* write_tasks, lines 219-229: the handler removes the temporary file and
\* the error goes to the caller
Cleanup(t) ==
    /\ th[t].pc = "cleanup"
    /\ StoreAt(t, TempName(t), CleanupTemp(FileAt(TempName(t))), Raised(t, "write"))
    /\ UNCHANGED <<nuuid, nonConcVars>>

\* a table as an earlier run left it: empty, or holding one record
StoredTables ==
    {File(<<HeaderRow>>),
     WriteTasks(<<Prepared([task |-> <<"t">>, id |-> <<"1">>], 0, 0)>>)}

ConcInit ==
    /\ file \in StoredTables
    /\ backups = << >>
    /\ now = 0
    /\ nuuid = 0
    /\ res = [op |-> "init"]
    /\ steps = 0
    /\ snap = << >>
    /\ CodecIdle
    /\ ConcIdle
    /\ PathIdle
    /\ HttpIdle
    /\ ReadIdle
    /\ LockIdle

ConcNext ==
    \E t \in Workers :
        \/ Start(t, "read", << >>)
        \/ \E task_data \in AddInputs : Start(t, "add", task_data)
        \/ Ensure(t)
        \/ Validate(t)
        \/ Open(t)
        \/ ReadRow(t)
        \/ MkTemp(t)
        \/ WriteRow(t)
        \/ Move(t)
        \/ Fail(t)
        \/ Cleanup(t)

SpecConc == ConcInit /\ [][ConcNext]_vars

\* C4: under every interleaving of two concurrent add_task calls, add never
\* produces two records with the same id, also when both calls carry the
\* same explicit id.
C4_ConcurrentAddUnique ==
    \A i, j \in 1..Len(Table(file)) :
        i # j => Table(file)[i]["id"] # Table(file)[j]["id"]

\* thread t's call has ended with write_tasks raising
WriteFailed(t) ==
    th[t].pc = "done" /\ ~th[t].out.ok /\ th[t].out.phase = "write"

\* C8: if write_tasks fails at any step (formatting a row, writing the
\* temporary file, the rename), the temporary file no longer exists
\* afterwards and the call has left the table file as it was.
C8_FailedWriteLeavesNothing ==
    \A t \in Workers :
        WriteFailed(t) => (~FileAt(TempName(t)).exists /\ ~th[t].touched)

\* a write_tasks has failed after rows had gone to its temporary file
C8_Witness ==
    \E t \in Workers : WriteFailed(t) /\ th[t].wpos >= 2

\* C9: a read_tasks() concurrent with a write_tasks-based mutation never
\* sees a partly written table: it returns the complete records of a
\* content the table file held, whole, at some moment of the read.
C9_ReadSeesWholeTable ==
    \A t \in Workers :
        (th[t].pc = "done" /\ th[t].op = "read")
            => (th[t].out.ok /\ \E f \in th[t].seen : th[t].out.tasks = Table(f))

\* a read_tasks() has returned the table of before a write that another
\* thread finished during the read
C9_Witness ==
    \E t \in Workers :
        /\ th[t].pc = "done" /\ th[t].op = "read"
        /\ Cardinality(th[t].seen) >= 2
        /\ th[t].out.tasks # Table(file)

\* thread t's add_task has returned True
AddDone(t) == th[t].pc = "done" /\ th[t].op = "add" /\ th[t].out.ok

\* the records of a sequence, as a set
Range(tasks) == {tasks[i] : i \in 1..Len(tasks)}

\* C23: two concurrent add_task calls can interleave so that both read the
\* table before either writes: both return success, yet the final table
\* holds only one of the two added records.  Whenever both calls have
\* returned success the table file is, whole, what one of them wrote: the
\* records that call had read and its own.
C23_LastRenameWins ==
    \A t, u \in Workers :
        (t # u /\ AddDone(t) /\ AddDone(u))
            => \E w \in {t, u} :
                  /\ file = WriteTasks(th[w].got)
                  /\ th[w].arg \in Range(th[w].got)

\* a lost update: both add_task calls have returned True, each had read the
\* table without the other's record, and the table holds u's record only
C23_Witness ==
    \E t, u \in Workers :
        /\ t # u /\ AddDone(t) /\ AddDone(u)
        /\ th[t].arg["id"] # th[u].arg["id"]
        /\ th[t].arg \notin Range(th[u].got)
        /\ th[u].arg \notin Range(th[t].got)
        /\ file = WriteTasks(th[u].got)
        /\ Len(Table(file)) = Len(th[t].got)
        /\ \A i \in 1..Len(Table(file)) : Table(file)[i]["id"] # Strip(th[t].arg["id"])

-----------------------------------------------------------------------------
(* restore_from_backup beside read_tasks: csv_export_import.py:191-215.    *)
(* shutil.copy2 opens the table file for writing, which empties it, and    *)
(* copies the backup into it piece by piece; it takes no lock.             *)

\* the thread that restores
RestoreWorker == 1

\* the table before any restore: one record
LiveTable == WriteTasks(<<Prepared([task |-> <<"t">>, id |-> <<"1">>], 0, 0)>>)

\* the backup file found in the backup directory: two other records
SavedTable ==
    WriteTasks(<<Prepared([task |-> <<"x">>, id |-> <<"8">>], 0, 0),
                 Prepared([task |-> <<"y">>, id |-> <<"9">>], 0, 0)>>)

\* the backup was taken in second 0; the calls happen in second 1
RestoreInit ==
    /\ file = LiveTable
    /\ backups = (0 :> SavedTable)
    /\ now = 1
    /\ nuuid = 0
    /\ res = [op |-> "init"]
    /\ steps = 0
    /\ snap = << >>
    /\ CodecIdle
    /\ ConcIdle
    /\ PathIdle
    /\ HttpIdle
    /\ ReadIdle
    /\ LockIdle

restoreRest ==
    <<now, res, steps, snap, codecVars, pathVars, httpVars, readVars, lockVars>>

\* a thread takes up restore_from_backup(backup_path)
StartRestore(t, backup_path) ==
    /\ th[t].pc \in {"idle", "done"}
    /\ th[t].n < MaxOps
    /\ th' = [th EXCEPT ![t] =
                [IdleThread EXCEPT !.pc = "exists", !.op = "restore",
                                   !.n = th[t].n + 1, !.arg = backup_path]]
    /\ UNCHANGED <<file, backups, tmp, nuuid, restoreRest>>

\* lines 203-204: os.path.exists(backup_path)
RestoreExists(t) ==
    /\ th[t].pc = "exists"
    /\ th' = IF th[t].arg \in DOMAIN backups
             THEN [th EXCEPT ![t].pc = "backup"]
             ELSE [th EXCEPT ![t].pc = "done",
                             ![t].out = [ok |-> FALSE,
                                         error |-> "CSVExportImportError",
                                         phase |-> "exists", tasks |-> << >>]]
    /\ UNCHANGED <<file, backups, tmp, nuuid, restoreRest>>

\* line 207: create_backup()
RestoreBackup(t) ==
    /\ th[t].pc = "backup"
    /\ backups' = CreateBackup(file, backups, now).backups
    /\ th' = [th EXCEPT ![t].pc = "truncate"]
    /\ UNCHANGED <<file, tmp, nuuid, restoreRest>>

\* line 210, shutil.copy2: the table file is opened for writing
RestoreTruncate(t) ==
    /\ th[t].pc = "truncate"
    /\ file' = File(<< >>)
    /\ th' = [th EXCEPT ![t].pc = "copy", ![t].wpos = 0]
    /\ UNCHANGED <<backups, tmp, nuuid, restoreRest>>

\* the bytes of a file between its former end and a write beyond it
Hole == <<<<"<NUL>">>>>

\* line 210, shutil.copy2: the next piece of the backup is written at the
\* writer's position; after the last one restore_from_backup returns True
RestoreCopy(t) ==
    /\ th[t].pc = "copy"
    /\ LET k == th[t].wpos
           src == backups[th[t].arg].rows
           gap == [i \in 1..(k - Len(file.rows)) |-> Hole]
       IN  IF k < Len(src)
           THEN /\ file' = File(IF Len(file.rows) > k
                                THEN [file.rows EXCEPT ![k + 1] = src[k + 1]]
                                ELSE file.rows \o gap \o <<src[k + 1]>>)
                /\ th' = [th EXCEPT ![t].wpos = k + 1]
           ELSE /\ file' = file
                /\ th' = [th EXCEPT ![t].pc = "done",
                                    ![t].out = [ok |-> TRUE, error |-> "",
                                                phase |-> "copy", tasks |-> << >>]]
    /\ UNCHANGED <<backups, tmp, nuuid, restoreRest>>

\* _ensure_csv_exists, line 43: the file is missing or of size zero
EnsureCheck(t) ==
    /\ th[t].pc = "ensure"
    /\ th' = [th EXCEPT ![t].pc = IF ~file.exists \/ file.rows = << >>
                                  THEN "create" ELSE "validate"]
    /\ UNCHANGED <<file, tmp, nuuid, nonConcVars>>

\* _ensure_csv_exists, lines 45-47: the file is opened for writing, which
\* empties it, and the header row written
EnsureCreate(t) ==
    /\ th[t].pc = "create"
    /\ file' = File(<<HeaderRow>>)
    /\ th' = [th EXCEPT ![t].pc = "validate", ![t].touched = TRUE]
    /\ UNCHANGED <<tmp, nuuid, nonConcVars>>

RestoreNext ==
    \/ \E path \in 0..now : StartRestore(RestoreWorker, path)
    \/ RestoreExists(RestoreWorker)
    \/ RestoreBackup(RestoreWorker)
    \/ RestoreTruncate(RestoreWorker)
    \/ RestoreCopy(RestoreWorker)
    \/ \E t \in Workers \ {RestoreWorker} :
          \/ Start(t, "read", << >>)
          \/ EnsureCheck(t)
          \/ EnsureCreate(t)
          \/ Validate(t)
          \/ Open(t)
          \/ ReadRow(t)

SpecRestore == RestoreInit /\ [][RestoreNext]_vars

\* C24: restore_from_backup replaces the table atomically, like every other
\* mutating operation: a concurrent read_tasks() returns either the complete
\* table of before the restore or the complete content of the backup, never
\* a cut or partly copied file.
C24_RestoreIsAtomic ==
    \A t \in Workers :
        (th[t].pc = "done" /\ th[t].op = "read")
            => (/\ th[t].out.ok
                /\ th[t].out.tasks \in {Table(LiveTable), Table(SavedTable)})

\* C34: a read_tasks(), its _ensure_csv_exists step included, that runs
\* beside restore_from_backup or write_tasks never alters what the writer
\* stores: once both have finished the table file holds what the writer
\* alone would have produced.
C34_ReaderLeavesWriterAlone ==
    \A t, u \in Workers :
        (/\ th[t].pc = "done" /\ th[t].op = "restore" /\ th[t].out.ok
         /\ th[u].pc = "done" /\ th[u].op = "read")
            => file = backups[th[t].arg]

-----------------------------------------------------------------------------
(* delete_backup: csv_export_import.py:249-274.  A path is a sequence of   *)
(* components, a component a text; the working directory is /app.          *)

Cwd == <<<<"app">>>>

\* self.backup_dir = 'backups' (line 23)
backup_dir == <<<<"backups">>>>

DotDot == <<"..">>

\* os.path.normpath: ".." removes the component before it
RECURSIVE NormPath(_, _)
NormPath(done, rest) ==
    IF rest = << >> THEN done
    ELSE IF Head(rest) = DotDot
    THEN NormPath(IF done = << >> THEN done ELSE SubSeq(done, 1, Len(done) - 1),
                  Tail(rest))
    ELSE NormPath(Append(done, Head(rest)), Tail(rest))

\* os.path.abspath of a relative path: the components below the root
AbsPath(path) == NormPath(<< >>, Cwd \o path)

\* the absolute path as a str: "/" before each component
RECURSIVE PathStr(_)
PathStr(components) ==
    IF components = << >> THEN << >>
    ELSE <<"/">> \o Head(components) \o PathStr(Tail(components))

\* str.startswith
StartsWith(s, prefix) ==
    Len(s) >= Len(prefix) /\ SubSeq(s, 1, Len(prefix)) = prefix

\* os.path.exists
Exists(path) == AbsPath(path) \in disk

\* delete_backup(backup_path): what is returned or raised, and the files left
DeleteBackup(path) ==
    IF ~Exists(path)
    THEN [ret |-> "False", disk |-> disk]
    ELSE IF ~StartsWith(PathStr(AbsPath(path)), PathStr(AbsPath(backup_dir)))
    THEN [ret |-> "InvalidPath", disk |-> disk]
    ELSE [ret |-> "True", disk |-> disk \ {AbsPath(path)}]

\* the files delete_backup is tried on: two backups, the table file, a file
\* of the sibling directory backups_old, a file outside the working directory
Backup0 == <<<<"backups">>, <<"tasks_backup_0.csv">>>>
Backup1 == <<<<"backups">>, <<"tasks_backup_1.csv">>>>
TableFile == <<<<"tasks.csv">>>>
SiblingFile == <<<<"backups", "_old">>, <<"tasks_backup_0.csv">>>>
OutsideFile == <<DotDot, <<"srv">>, <<"data.csv">>>>

\* the paths handed to delete_backup: each file directly, and the table
\* file and a backup by way of ".."
DeletePaths ==
    {Backup0, Backup1, TableFile, SiblingFile, OutsideFile,
     <<<<"backups">>, DotDot, <<"tasks.csv">>>>,
     <<<<"backups", "_old">>, DotDot, <<"backups">>, <<"tasks_backup_0.csv">>>>}

PathInit ==
    /\ disk \in SUBSET {AbsPath(p) : p \in {Backup0, Backup1, TableFile,
                                            SiblingFile, OutsideFile}}
    /\ pres = [op |-> "init"]
    /\ SeqIdle
    /\ CodecIdle
    /\ ConcIdle
    /\ HttpIdle
    /\ ReadIdle
    /\ LockIdle

DeleteBackupCall(path) ==
    /\ LET d == DeleteBackup(path)
       IN  /\ disk' = d.disk
           /\ pres' = [op |-> "delete_backup", path |-> path, ret |-> d.ret,
                       removed |-> disk \ d.disk]
    /\ UNCHANGED nonPathVars

PathNext == \E path \in DeletePaths : DeleteBackupCall(path)

SpecPath == PathInit /\ [][PathNext]_vars

\* the absolute path lies inside the backup directory
InsideBackupDir(path) ==
    LET abs == AbsPath(path)
        dir == AbsPath(backup_dir)
    IN  Len(abs) > Len(dir) /\ SubSeq(abs, 1, Len(dir)) = dir

\* C6: delete_backup with a path whose resolved absolute location is not
\* inside the backup directory (a file existing there or not, sibling
\* directories whose name starts with the backup directory's name included)
\* always fails with InvalidPath and never removes a file.
C6_OutsideNeverDeleted ==
    (pres.op = "delete_backup" /\ ~InsideBackupDir(pres.path))
        => (pres.ret = "InvalidPath" /\ pres.removed = {})

-----------------------------------------------------------------------------
(* Task entity: models.py:31-216.  A Task is the record of its attributes. *)

\* class Priority, class Status
Priorities == {<<"Low">>, <<"Medium">>, <<"High">>, <<"Critical">>}
NotStarted == <<"Not", Space, "Started">>
Completed == <<"Completed">>
Statuses == {NotStarted, <<"In", Space, "Progress">>, Completed, <<"On", Space, "Hold">>}

\* the length limits of validate
MaxTitleLen == 200
MaxDescriptionLen == 1000
MaxAssigneeLen == 100
MaxCategoryLen == 50
MaxTagsLen == 200

\* the clock seconds a run can reach
Seconds == 0..(MaxSteps + 1)

\* _is_valid_datetime: the text is an ISO timestamp
IsValidDatetime(date_string) == date_string \in {IsoText(n) : n \in Seconds}

\* a token str.isalnum rejects once blanks, hyphens and underscores are removed
SpecialToken == "#"

\* a from_dict that passes absent fields on as None
TaskFromDict_NoDefaults(data, k, t) ==
    [h \in HeaderSet |->
        IF h = "id" /\ ~Truthy(Get(data, "id", None)) THEN Uuid(k + 1)
        ELSE Get(data, h, None)]

\* Task.__init__ from Task.from_dict(data), with k identifiers drawn so far,
\* at clock second t
TaskFromDict(data, k, t) ==
    [id |-> IF Truthy(Get(data, "id", None)) THEN data["id"] ELSE Uuid(k + 1),
     task |-> Get(data, "task", Empty),
     priority |-> Get(data, "priority", <<"Medium">>),
     description |-> Get(data, "description", Empty),
     created_date |-> IF Truthy(Get(data, "created_date", None))
                      THEN data["created_date"] ELSE IsoText(t),
     assignee |-> Get(data, "assignee", Empty),
     opened_date |-> Get(data, "opened_date", None),
     status |-> Get(data, "status", NotStarted),
     completion_date |-> Get(data, "completion_date", None),
     category |-> Get(data, "category", Empty),
     tags |-> Get(data, "tags", Empty)]

\* a validate without the two business rules on completion_date
Valid_NoCompletionRule(self) ==
    /\ Truthy(self["task"]) /\ Strip(self["task"]) # Empty
    /\ Len(Strip(self["task"])) <= MaxTitleLen
    /\ self["priority"] \in Priorities
    /\ self["status"] \in Statuses
    /\ \A h \in DateFields : Truthy(self[h]) => IsValidDatetime(self[h])

\* Task.validate: no error is collected
Valid(self) ==
    /\ Truthy(self["task"]) /\ Strip(self["task"]) # Empty
    /\ Len(Strip(self["task"])) <= MaxTitleLen
    /\ self["priority"] \in Priorities
    /\ self["status"] \in Statuses
    /\ Truthy(self["description"]) => Len(self["description"]) <= MaxDescriptionLen
    /\ Truthy(self["assignee"]) => Len(self["assignee"]) <= MaxAssigneeLen
    /\ Truthy(self["category"]) => Len(self["category"]) <= MaxCategoryLen
    /\ Truthy(self["tags"]) =>
          /\ Len(self["tags"]) <= MaxTagsLen
          /\ \A i \in 1..Len(self["tags"]) : self["tags"][i] # SpecialToken
    /\ \A h \in DateFields : Truthy(self[h]) => IsValidDatetime(self[h])
    /\ self["status"] = Completed => Truthy(self["completion_date"])
    /\ self["status"] # Completed => ~Truthy(self["completion_date"])

\* Task.to_dict: the eleven columns, nothing else
ToDict(self) == [h \in HeaderSet |-> self[h]]

-----------------------------------------------------------------------------
(* HTTP layer: app.py:70-220.                                              *)

\* get_task_by_id: the first record with the id, None when there is none
GetTaskById(f, task_id) ==
    LET tasks == ReadTasks(f).tasks
        i == FirstWithId(tasks, task_id, 1)
    IN  IF i = 0 THEN None ELSE tasks[i]

\* client_timestamp < server_timestamp on two ISO timestamps
StrLess(a, b) ==
    \E m, n \in Seconds : a = IsoText(m) /\ b = IsoText(n) /\ m < n

\* line 167: both sides carry a _last_modified, line 171: the client's is older
Conflict(data, existing_task) ==
    /\ Truthy(Get(data, "_last_modified", None))
    /\ Truthy(Get(existing_task, "_last_modified", None))
    /\ StrLess(data["_last_modified"], existing_task["_last_modified"])

\* lines 180-183: the stored record overlaid with the request's fields
Merged(existing_task, data, task_id, t) ==
    SetKey(SetKey(data @@ existing_task, "id", task_id),
           "_last_modified", IsoText(t))

\* POST /api/tasks
CreateTask(f, data, k, t) ==
    LET task == TaskFromDict(data, k, t)
        k2 == IF Truthy(Get(data, "id", None)) THEN k ELSE k + 1
        a == AddTask(f, ToDict(task), k2, t)
    IN  IF DOMAIN data = {}
        THEN [status |-> 400, file |-> f, nuuid |-> k, task |-> None,
              task_id |-> None]
        ELSE IF ~Valid(task)
        THEN [status |-> 400, file |-> f, nuuid |-> k2, task |-> None,
              task_id |-> None]
        ELSE IF ~a.ok
        THEN [status |-> 500, file |-> a.file, nuuid |-> a.nuuid, task |-> None,
              task_id |-> None]
        ELSE [status |-> 201, file |-> a.file, nuuid |-> a.nuuid,
              task |-> ToDict(task), task_id |-> a.id]

\* PUT /api/tasks/<task_id>
PutTask(f, task_id, data, k, t) ==
    LET r == ReadTasks(f)
        existing_task == GetTaskById(f, task_id)
        task == TaskFromDict(Merged(existing_task, data, task_id, t), k, t)
        u == UpdateTask(f, task_id, ToDict(task))
    IN  IF DOMAIN data = {}
        THEN [status |-> 400, file |-> f, task |-> None]
        ELSE IF ~r.ok
        THEN [status |-> 500, file |-> EnsureCsvExists(f), task |-> None]
        ELSE IF existing_task = None
        THEN [status |-> 404, file |-> EnsureCsvExists(f), task |-> None]
        ELSE IF Conflict(data, existing_task)
        THEN [status |-> 409, file |-> EnsureCsvExists(f), task |-> existing_task]
        ELSE IF ~Valid(task)
        THEN [status |-> 400, file |-> EnsureCsvExists(f), task |-> None]
        ELSE IF ~u.ok
        THEN [status |-> 500, file |-> u.file, task |-> None]
        ELSE IF ~u.found
        THEN [status |-> 404, file |-> u.file, task |-> None]
        ELSE [status |-> 200, file |-> u.file, task |-> ToDict(task)]

\* a record that supplies a title and nothing else
TitleOnly == [task |-> <<"Write", Space, "spec">>]

\* request bodies of POST: empty, a title, a title and an id, a status
\* without its completion date, a completion date without the status, a
\* completed task with its date
CreateBodies ==
    {<< >>, TitleOnly, [task |-> <<"t">>], [task |-> <<"t">>, id |-> <<"1">>],
     [task |-> <<"t">>, status |-> Completed],
     [task |-> <<"t">>, completion_date |-> IsoText(0)],
     [task |-> <<"t">>, id |-> <<"1">>, status |-> Completed,
      completion_date |-> IsoText(0)]}

\* request bodies of PUT at second t: empty, a new title, a new title with
\* the _last_modified of a copy fetched at some second up to t
UpdateBodies(t) ==
    {<< >>, [task |-> <<"u">>]}
        \cup {[task |-> <<"u">>, _last_modified |-> IsoText(n)] : n \in 0..t}
        \cup {[status |-> status] : status \in {NotStarted, Completed}}
        \cup {[status |-> Completed, completion_date |-> IsoText(0)]}

HttpCreate(data) ==
    /\ steps < MaxSteps /\ steps' = steps + 1
    /\ LET c == CreateTask(file, data, nuuid, now)
       IN  /\ file' = c.file
           /\ nuuid' = c.nuuid
           /\ resp' = [op |-> "create", status |-> c.status, id |-> c.task_id,
                       client |-> None, task |-> c.task, keys |-> DOMAIN data,
                       body |-> data]
    /\ UNCHANGED <<now, lastMod, nonHttpVars>>

\* add_task(task_data) called on the store directly, as the import does
StoreAdd(task_data) ==
    /\ steps < MaxSteps /\ steps' = steps + 1
    /\ LET a == AddTask(file, task_data, nuuid, now)
       IN  /\ file' = a.file
           /\ nuuid' = a.nuuid
           /\ resp' = [op |-> "add", ok |-> a.ok, id |-> a.id,
                       keys |-> DOMAIN task_data]
    /\ UNCHANGED <<now, lastMod, nonHttpVars>>

HttpUpdate(task_id, data) ==
    /\ steps < MaxSteps /\ steps' = steps + 1
    /\ LET u == PutTask(file, task_id, data, nuuid, now)
       IN  /\ file' = u.file
           /\ resp' = [op |-> "update", status |-> u.status, id |-> task_id,
                       client |-> Get(data, "_last_modified", None),
                       task |-> u.task, body |-> data]
           /\ lastMod' = IF u.status = 200
                         THEN (task_id :> now) @@ lastMod ELSE lastMod
    /\ UNCHANGED <<now, nuuid, nonHttpVars>>

HttpTick ==
    /\ steps < MaxSteps /\ steps' = steps + 1
    /\ now' = now + 1
    /\ UNCHANGED <<file, nuuid, resp, lastMod, nonHttpVars>>

\* the separator of the tags field
Comma == ","

\* tags.split(','): the pieces between the separators
RECURSIVE Split(_, _)
Split(text, piece) ==
    IF text = << >> THEN <<piece>>
    ELSE IF Head(text) = Comma THEN <<piece>> \o Split(Tail(text), << >>)
    ELSE Split(Tail(text), Append(piece, Head(text)))

\* [tag.strip() for tag in tags.split(',') if tag.strip()], as a set
TagList(tags) ==
    LET pieces == Split(tags, << >>)
    IN  {Strip(pieces[i]) : i \in {j \in 1..Len(pieces) : Strip(pieces[j]) # Empty}}

\* value or ''
OrEmpty(v) == IF Truthy(v) THEN v ELSE Empty

\* a counter dict: how many of the keys are each key
CountBy(keys) ==
    [v \in {keys[i] : i \in 1..Len(keys)} |->
        Cardinality({i \in 1..Len(keys) : keys[i] = v})]

\* the field stripped, or the given label when it is empty
Labelled(v, label) == IF Strip(OrEmpty(v)) = Empty THEN label ELSE Strip(OrEmpty(v))

\* jsonify sorts the keys of a dict: None cannot be ordered with a str
Sortable(d) == ~(None \in DOMAIN d /\ DOMAIN d # {None})

\* get_stats, lines 276-317: the five counters
Stats(tasks) ==
    [by_status |-> CountBy([i \in 1..Len(tasks) |-> tasks[i]["status"]]),
     by_priority |-> CountBy([i \in 1..Len(tasks) |-> tasks[i]["priority"]]),
     by_assignee |-> CountBy([i \in 1..Len(tasks) |->
                        Labelled(tasks[i]["assignee"], <<"Unassigned">>)]),
     by_category |-> CountBy([i \in 1..Len(tasks) |->
                        Labelled(tasks[i]["category"], <<"Uncategorized">>)]),
     by_tags |-> [tag \in UNION {TagList(OrEmpty(tasks[i]["tags"])) : i \in 1..Len(tasks)} |->
                    Cardinality({i \in 1..Len(tasks) :
                                    tag \in TagList(OrEmpty(tasks[i]["tags"]))})]]

\* get_categories, lines 419-423: the non-empty categories, stripped
Categories(tasks) ==
    {Strip(tasks[i]["category"]) : i \in {j \in 1..Len(tasks) : Strip(tasks[j]["category"]) # Empty}}

\* get_tags, lines 449-454: the tags of all tasks
Tags(tasks) == UNION {TagList(OrEmpty(tasks[i]["tags"])) : i \in 1..Len(tasks)}

\* GET /api/stats
GetStats(f) ==
    LET r == ReadTasks(f)
        stats == Stats(r.tasks)
    IN  IF ~r.ok \/ ~Sortable(stats.by_status) \/ ~Sortable(stats.by_priority)
        THEN [status |-> 500, body |-> None]
        ELSE [status |-> 200, body |-> stats]

\* the view functions registered for GET /api/categories (lines 336, 412)
CategoriesViews == {"create_backup", "get_categories"}

\* GET /api/categories served by get_categories: None has no strip()
GetCategories(f) ==
    LET r == ReadTasks(f)
    IN  IF ~r.ok \/ \E i \in 1..Len(r.tasks) : r.tasks[i]["category"] = None
        THEN [status |-> 500, body |-> None]
        ELSE [status |-> 200, body |-> Categories(r.tasks)]

\* GET /api/tags
GetTags(f) ==
    LET r == ReadTasks(f)
    IN  IF ~r.ok THEN [status |-> 500, body |-> None]
        ELSE [status |-> 200, body |-> Tags(r.tasks)]

HttpStats ==
    /\ steps < MaxSteps /\ steps' = steps + 1
    /\ file' = EnsureCsvExists(file)
    /\ resp' = [op |-> "stats", status |-> GetStats(file).status,
                body |-> GetStats(file).body]
    /\ UNCHANGED <<now, nuuid, lastMod, nonHttpVars>>

HttpTags ==
    /\ steps < MaxSteps /\ steps' = steps + 1
    /\ file' = EnsureCsvExists(file)
    /\ resp' = [op |-> "tags", status |-> GetTags(file).status,
                body |-> GetTags(file).body]
    /\ UNCHANGED <<now, nuuid, lastMod, nonHttpVars>>

\* GET /api/categories, served by one of the two views of that route
HttpCategories(view) ==
    /\ steps < MaxSteps /\ steps' = steps + 1
    /\ IF view = "create_backup"
       THEN /\ backups' = CreateBackup(file, backups, now).backups
            /\ file' = file
            /\ resp' = [op |-> "categories", status |-> 200,
                        body |-> [backup_path |-> CreateBackup(file, backups, now).path]]
       ELSE /\ backups' = backups
            /\ file' = EnsureCsvExists(file)
            /\ resp' = [op |-> "categories", status |-> GetCategories(file).status,
                        body |-> GetCategories(file).body]
    /\ UNCHANGED <<now, nuuid, lastMod, res, snap, codecVars, concVars, pathVars,
                   readVars, lockVars>>

\* the table a server starts with: empty, or one task created earlier
HttpTables ==
    {File(<<HeaderRow>>),
     WriteTasks(<<ToDict(TaskFromDict([task |-> <<"t">>, id |-> <<"1">>], 0, 0))>>)}

HttpInit ==
    /\ file \in HttpTables
    /\ backups = << >>
    /\ now = 0
    /\ nuuid = 0
    /\ res = [op |-> "init"]
    /\ steps = 0
    /\ snap = << >>
    /\ resp = [op |-> "init"]
    /\ lastMod = << >>
    /\ CodecIdle
    /\ ConcIdle
    /\ PathIdle
    /\ ReadIdle
    /\ LockIdle

HttpNext ==
    \/ \E data \in CreateBodies : HttpCreate(data)
    \/ StoreAdd(TitleOnly)
    \/ HttpStats
    \/ HttpTags
    \/ \E view \in CategoriesViews : HttpCategories(view)
    \/ \E task_id \in PlainIds \cup {AbsentId}, data \in UpdateBodies(now) :
          HttpUpdate(task_id, data)
    \/ HttpTick

SpecHttp == HttpInit /\ [][HttpNext]_vars

\* the request carries a _last_modified older than the stamp of the last
\* successful update of the record
Stale(r) ==
    /\ r.op = "update"
    /\ r.id \in DOMAIN lastMod
    /\ Truthy(r.client)
    /\ StrLess(r.client, IsoText(lastMod[r.id]))

\* C7: an update request carrying a _last_modified older than the stamp the
\* previous successful update recorded for the record is answered 409, the
\* table file stays as it is and the stored record is returned.
C7_StaleUpdateRejected ==
    [][(steps' = steps + 1 /\ now' = now /\ Stale(resp'))
          => (/\ resp'.status = 409
              /\ file' = file
              /\ resp'.task = GetTaskById(file, resp'.id))]_vars

\* the step is a request or call op of the HTTP layer's process
Served(op) == steps' = steps + 1 /\ now' = now /\ resp'.op = op

\* the record get_task_by_id returns carries the defaults of a fresh task
HasDefaults(f, task_id) ==
    LET task == GetTaskById(f, task_id)
    IN  /\ task # None
        /\ task["status"] = NotStarted
        /\ task["priority"] = <<"Medium">>
        /\ Truthy(task["created_date"])

\* C14, as stated for the store: add_task of a record that supplies only a
\* title returns a generated non-empty id, and get_task_by_id of that id
\* returns a record with status "Not Started", priority "Medium" and a
\* non-empty created_date.
C14_AddDefaults ==
    [][(Served("add") /\ resp'.keys = {"task"})
          => (resp'.ok /\ Truthy(resp'.id) /\ HasDefaults(file', resp'.id))]_vars

\* C14, for the create request: POST /api/tasks with a body that supplies
\* only a title is answered 201 with a generated non-empty task_id, and
\* get_task_by_id of that id returns a record with status "Not Started",
\* priority "Medium" and a non-empty created_date.
C14_CreateDefaults ==
    [][(Served("create") /\ resp'.keys = {"task"})
          => (/\ resp'.status = 201
              /\ Truthy(resp'.id)
              /\ HasDefaults(file', resp'.id))]_vars

\* the task "Write spec" has been created through POST /api/tasks
C14_Witness ==
    /\ resp.op = "create" /\ resp.status = 201
    /\ resp.keys = {"task"}
    /\ GetTaskById(file, resp.id) # None
    /\ GetTaskById(file, resp.id)["task"] = TitleOnly["task"]

\* C19: the categories, stats and tags endpoints are pure reads: serving
\* GET /api/categories, GET /api/stats or GET /api/tags leaves the table file
\* and the backup directory unchanged and returns an aggregation of the
\* records read_tasks() returns.
C19_AggregationsArePureReads ==
    [][(\E op \in {"categories", "stats", "tags"} : Served(op))
          => (/\ file' = file
              /\ backups' = backups
              /\ resp'.status = 200
              /\ resp'.body = CASE resp'.op = "categories" -> Categories(Table(file))
                                [] resp'.op = "stats" -> Stats(Table(file))
                                [] resp'.op = "tags" -> Tags(Table(file)))]_vars

\* a record has a completion_date exactly when its status is Completed
Consistent(task) == Truthy(task["completion_date"]) <=> task["status"] = Completed

\* the value a request asks for: the body's, else the one of the record it
\* is laid over
Requested(body, base) ==
    [h \in {"status", "completion_date"} |->
        IF h \in DOMAIN body THEN body[h] ELSE base[h]]

\* the record a request asks to store: for POST the body over the defaults
\* of a new task, for PUT the body over the stored record
Asked ==
    IF resp'.op = "create"
    THEN Requested(resp'.body, [status |-> NotStarted, completion_date |-> None])
    ELSE Requested(resp'.body, GetTaskById(file, resp'.id))

\* C31: after any sequence of create and update requests through the HTTP
\* layer every record of the table has a completion_date if and only if its
\* status is Completed; a request that would break this is rejected with a
\* validation error and leaves the table unchanged.
C31_CompletionDateIffCompleted ==
    [][/\ \A i \in 1..Len(Table(file')) : Consistent(Table(file')[i])
       /\ (/\ Served("create") \/ Served("update")
           /\ resp'.body # << >>
           /\ resp'.op = "update" => GetTaskById(file, resp'.id) # None
           /\ ~Consistent(Asked))
              => (resp'.status = 400 /\ file' = file)]_vars

\* a PUT that sets the status of a completed task back to Not Started has
\* been answered 400 and the task is still stored as completed
C31_Witness ==
    /\ resp.op = "update" /\ resp.status = 400
    /\ resp.body = [status |-> NotStarted]
    /\ GetTaskById(file, resp.id) # None
    /\ GetTaskById(file, resp.id)["status"] = Completed
    /\ Truthy(GetTaskById(file, resp.id)["completion_date"])

-----------------------------------------------------------------------------
(* read_tasks on a table file as found on disk: csv_manager.py:154-189.    *)

\* first rows a file on disk may have: the header, the header with two
\* columns swapped, without its last column, with a twelfth column, with a
\* padded name, a blank line, a data row
FirstRows ==
    LET swapped == [HeaderRow EXCEPT ![1] = HeaderRow[2], ![2] = HeaderRow[1]]
        padded == [HeaderRow EXCEPT ![1] = <<Space>> \o HeaderRow[1]]
    IN  {HeaderRow, swapped, SubSeq(HeaderRow, 1, Len(HeaderRow) - 1),
         Append(HeaderRow, <<"notes">>), padded, << >>,
         FormatTaskRow([id |-> <<"1">>, task |-> <<"t">>])}

\* rows below the first: two records, two records with a created_date (one
\* of them with a description of one space), a row of ten cells, a row of
\* twelve cells, a blank line, a row of eleven empty cells
DataRows ==
    LET row == FormatTaskRow([id |-> <<"1">>, task |-> <<"t">>])
    IN  {row, FormatTaskRow([id |-> <<"2">>, task |-> <<Space, "u">>]),
         FormatTaskRow([id |-> <<"3">>, task |-> <<"v">>,
                        created_date |-> IsoText(0)]),
         FormatTaskRow([id |-> <<"4">>, task |-> <<"w">>,
                        description |-> <<Space>>, created_date |-> IsoText(0)]),
         SubSeq(row, 1, Len(row) - 1), Append(row, <<"x">>), << >>,
         [i \in 1..Len(headers) |-> Empty]}

\* the table files read: missing, of size zero, or a first row and up to
\* MaxRecs rows below it
DiskFiles ==
    {Missing, File(<< >>)}
        \cup {File(<<first>> \o rest) : first \in FirstRows,
                                        rest \in SeqsUpTo(DataRows, MaxRecs)}

ReadInit ==
    /\ file \in DiskFiles
    /\ backups = << >>
    /\ now = 0
    /\ nuuid = 0
    /\ res = [op |-> "init"]
    /\ steps = 0
    /\ snap = << >>
    /\ ReadIdle
    /\ LockIdle
    /\ CodecIdle
    /\ ConcIdle
    /\ PathIdle
    /\ HttpIdle

\* read_tasks()
ReadCall ==
    /\ file' = EnsureCsvExists(file)
    /\ rd' = [op |-> "read", done |-> TRUE, ok |-> ReadTasks(file).ok,
              error |-> ReadTasks(file).error, tasks |-> ReadTasks(file).tasks,
              output |-> << >>]
    /\ UNCHANGED nonReadVars

\* csv.DictWriter, one cell: None is written as ''
DictWriterCell(value) == IF value = None THEN Empty ELSE value

\* csv.DictWriter.writerows over the field names of the first record, which
\* _parse_task_row fills in header order
DictWriterRows(tasks) ==
    [i \in 1..Len(tasks) |->
        [j \in 1..Len(headers) |-> DictWriterCell(tasks[i][headers[j]])]]

\* an export that writes nothing for an empty table
ExportTasksToCsv_Bare(f, t) ==
    LET read == ReadTasks(f)
    IN  IF ~read.ok
        THEN [ok |-> FALSE, error |-> "CSVExportImportError", output |-> << >>,
              filename |-> << >>]
        ELSE [ok |-> TRUE, error |-> "",
              output |-> IF read.tasks # << >>
                         THEN <<HeaderRow>> \o DictWriterRows(read.tasks)
                         ELSE << >>,
              filename |-> <<"tasks_export_", ToString(t)>>]

\* export_tasks_to_csv: the rows of the output and the file name
ExportTasksToCsv(f, t) ==
    LET read == ReadTasks(f)
    IN  IF ~read.ok
        THEN [ok |-> FALSE, error |-> "CSVExportImportError", output |-> << >>,
              filename |-> << >>]
        ELSE [ok |-> TRUE, error |-> "",
              output |-> IF read.tasks # << >>
                         THEN <<HeaderRow>> \o DictWriterRows(read.tasks)
                         ELSE <<HeaderRow>>,
              filename |-> <<"tasks_export_", ToString(t)>>]

\* export_tasks_to_csv()
ExportCall ==
    /\ file' = EnsureCsvExists(file)
    /\ rd' = [op |-> "export", done |-> TRUE, ok |-> ExportTasksToCsv(file, now).ok,
              error |-> ExportTasksToCsv(file, now).error,
              tasks |-> ReadTasks(file).tasks,
              output |-> ExportTasksToCsv(file, now).output]
    /\ UNCHANGED nonReadVars

\* _ensure_csv_exists() called on its own, as CSVManager.__init__ does
EnsureCall ==
    /\ file' = EnsureCsvExists(file)
    /\ rd' = [op |-> "ensure", done |-> TRUE, ok |-> TRUE, error |-> "",
              tasks |-> << >>, output |-> << >>, created |-> file' # file]
    /\ UNCHANGED nonReadVars

\* create_backup() beside a table file as found on disk
BackupCall ==
    /\ backups' = CreateBackup(file, backups, now).backups
    /\ rd' = [op |-> "backup", done |-> TRUE, ok |-> TRUE, error |-> "",
              tasks |-> << >>, output |-> << >>,
              path |-> CreateBackup(file, backups, now).path]
    /\ UNCHANGED <<file, now, nuuid, res, steps, snap, codecVars, concVars,
                   pathVars, httpVars, lockVars>>

\* csv.DictReader over a content: the first row gives the field names, blank
\* rows are skipped, a short row is filled up with None and the cells beyond
\* the field names go under the key None, which line 95 drops
DictReader(content) ==
    LET fieldnames == [i \in 1..Len(content[1]) |-> content[1][i][1]]
        below == SelectSeq(Tail(content), LAMBDA row : row # << >>)
    IN  [i \in 1..Len(below) |->
            [key \in {fieldnames[j] : j \in 1..Len(fieldnames)} |->
                LET j == CHOOSE x \in 1..Len(fieldnames) : fieldnames[x] = key
                IN  IF j <= Len(below[i]) THEN below[i][j] ELSE None]]

\* import_tasks_from_csv(output.getvalue(), replace_existing) with the output
\* of the export_tasks_to_csv() just made
ImportCall(replace_existing) ==
    /\ rd.op = "export" /\ rd.ok
    /\ LET rows == DictReader(rd.output)
           m == ImportTasks(file, backups, nuuid, now, rows, replace_existing)
       IN  /\ file' = m.file
           /\ backups' = m.backups
           /\ nuuid' = m.nuuid
           /\ rd' = [op |-> "import", done |-> TRUE, ok |-> m.ok,
                     error |-> m.error, tasks |-> rd.tasks, output |-> rd.output,
                     replace |-> replace_existing, imported |-> m.imported,
                     skipped |-> m.skipped, errors |-> m.errors]
    /\ UNCHANGED <<now, res, steps, snap, codecVars, concVars, pathVars,
                   httpVars, lockVars>>

ReadNext == ReadCall \/ ExportCall \/ EnsureCall \/ BackupCall \/ ImportCall(TRUE)

SpecRead == ReadInit /\ [][ReadNext]_vars

\* C20: read_tasks() fails with CSVManagerError whenever the table file is
\* not empty and its first row differs from the eleven-column header; a file
\* of size zero is no error and yields the empty sequence.
C20_CorruptHeaderFails ==
    [][rd'.op = "read"
          => (/\ (file.exists /\ file.rows # << >> /\ file.rows[1] # HeaderRow)
                    => (~rd'.ok /\ rd'.error = "CSVManagerError")
              /\ (file.exists /\ file.rows = << >>)
                    => (rd'.ok /\ rd'.tasks = << >>))]_vars

\* read_tasks() has failed on a file whose first row has the eleven column
\* names in another order, with a record below it
C20_Witness ==
    /\ rd.op = "read" /\ ~rd.ok
    /\ Len(file.rows) >= 2
    /\ Len(file.rows[1]) = Len(headers)
    /\ {file.rows[1][i] : i \in 1..Len(headers)} = {HeaderRow[i] : i \in 1..Len(headers)}

\* the data rows read_tasks keeps: not blank, eleven cells
KeptRows(f) ==
    SelectSeq(Tail(f.rows),
              LAMBDA row : Len(row) = 11 /\ \E i \in 1..Len(row) : row[i] # Empty)

\* C21: read_tasks() drops every data row whose column count differs from 11
\* without failing, skips blank rows, and returns all remaining rows as
\* records in file order.
C21_ReadDropsMalformedRows ==
    [][(rd'.op = "read" /\ file.exists /\ file.rows # << >>
            /\ file.rows[1] = HeaderRow)
          => (/\ rd'.ok
              /\ Len(rd'.tasks) = Len(KeptRows(file))
              /\ \A i \in 1..Len(KeptRows(file)) :
                    rd'.tasks[i] = ParseTaskRow(KeptRows(file)[i]))]_vars

\* read_tasks() has returned one record from a file that holds a row of twelve
\* cells above that record
C21_Witness ==
    /\ rd.op = "read" /\ rd.ok
    /\ Len(file.rows) = 3
    /\ Len(file.rows[2]) = 12
    /\ Len(rd.tasks) = 1
    /\ rd.tasks[1]["id"] = <<"2">>

\* the table of a file on disk is empty: no file, no bytes, or the header
\* and nothing that reads as a record below it
EmptyTable(f) == ReadTasks(f).ok /\ ReadTasks(f).tasks = << >>

\* C22: on an empty table read_tasks() returns the empty sequence and
\* export_tasks_to_csv() yields exactly the eleven-column header row and no
\* data rows; for a non-empty table the export has the same fixed column
\* order and one row per record in read order.
C22_ExportFollowsTable ==
    [][LET tasks == ReadTasks(file).tasks
           out == rd'.output
       IN  /\ (rd'.op = "read" /\ (~file.exists \/ Len(file.rows) <= 1)
                   /\ ValidateCsvStructure(EnsureCsvExists(file)))
                 => (rd'.ok /\ rd'.tasks = << >>)
           /\ (rd'.op = "export" /\ EmptyTable(file))
                 => (rd'.ok /\ out = <<HeaderRow>>)
           /\ (rd'.op = "export" /\ ReadTasks(file).ok /\ tasks # << >>)
                 => (/\ rd'.ok
                     /\ out[1] = HeaderRow
                     /\ Len(out) = Len(tasks) + 1
                     /\ \A i \in 1..Len(tasks) : \A j \in 1..Len(headers) :
                           out[i + 1][j] = IF tasks[i][headers[j]] = None
                                           THEN Empty
                                           ELSE tasks[i][headers[j]])]_vars

\* export_tasks_to_csv() has returned the header alone for a table without
\* records
C22_Witness ==
    /\ rd.op = "export" /\ rd.ok
    /\ rd.tasks = << >>
    /\ Len(rd.output) = 1
    /\ Len(file.rows) = 1

-----------------------------------------------------------------------------
(* _file_lock: csv_manager.py:51-94.  read_tasks takes the shared lock on   *)
(* its handle of the table file (line 170), write_tasks the exclusive lock *)
(* on its own temporary file (line 206).                                   *)

\* lines 12-23: fcntl where it can be imported, else msvcrt, else neither
Platforms == {"fcntl", "msvcrt", "none"}

\* line 67
max_retries == 10

LockOps == {"read", "write"}

\* a lock discipline in which write_tasks locks the table file
LockTarget_Table(t, op) == TablePath

\* the file whose handle is locked: lines 169-170 and 197-206
LockTarget(t, op) == IF op = "read" THEN TablePath ELSE TempName(t)

\* line 61: lock_flag
LockFlag(op) == IF op = "read" THEN "LOCK_SH" ELSE "LOCK_EX"

\* the other threads that hold a lock on the file thread t wants
HoldersBeside(t) ==
    {u \in Workers \ {t} :
        /\ lk.thr[u].locked
        /\ LockTarget(u, lk.thr[u].op) = LockTarget(t, lk.thr[t].op)}

\* flock waits while another handle holds a lock that excludes the flag
FlockWaits(t) ==
    \E u \in HoldersBeside(t) :
        "LOCK_EX" \in {LockFlag(lk.thr[u].op), LockFlag(lk.thr[t].op)}

\* msvcrt.locking(LK_NBLCK) fails while another handle holds the byte
LockingFails(t) == HoldersBeside(t) # {}

LockInit ==
    /\ lk \in [platform : Platforms, thr : {[t \in Workers |-> NoAttempt]}]
    /\ file = File(<<HeaderRow>>)
    /\ backups = << >>
    /\ now = 0
    /\ nuuid = 0
    /\ res = [op |-> "init"]
    /\ steps = 0
    /\ snap = << >>
    /\ CodecIdle
    /\ ConcIdle
    /\ PathIdle
    /\ HttpIdle
    /\ ReadIdle

\* read_tasks or write_tasks enters _file_lock with its handle
EnterLock(t, op) ==
    /\ lk.thr[t].pc = "idle"
    /\ lk' = [lk EXCEPT !.thr[t] = [NoAttempt EXCEPT !.pc = "acquire", !.op = op]]
    /\ UNCHANGED nonLockVars

\* lines 59-63: fcntl.flock returns once the lock is granted
Flock(t) ==
    /\ lk.platform = "fcntl"
    /\ lk.thr[t].pc = "acquire"
    /\ ~FlockWaits(t)
    /\ lk' = [lk EXCEPT !.thr[t].pc = "yield", !.thr[t].locked = TRUE]
    /\ UNCHANGED nonLockVars

\* lines 64-79: one turn of the retry loop
Locking(t) ==
    /\ lk.platform = "msvcrt"
    /\ lk.thr[t].pc = "acquire"
    /\ lk.thr[t].retry_count < max_retries
    /\ lk' = IF LockingFails(t)
             THEN [lk EXCEPT !.thr[t].retry_count = @ + 1]
             ELSE [lk EXCEPT !.thr[t].pc = "yield", !.thr[t].locked = TRUE]
    /\ UNCHANGED nonLockVars

\* lines 81-82: the loop has ended without the lock
GiveUp(t) ==
    /\ lk.platform = "msvcrt"
    /\ lk.thr[t].pc = "acquire"
    /\ lk.thr[t].retry_count >= max_retries
    /\ lk' = [lk EXCEPT !.thr[t].pc = "idle", !.thr[t].raised = TRUE]
    /\ UNCHANGED nonLockVars

\* neither module: the body runs without a lock
NoLock(t) ==
    /\ lk.platform = "none"
    /\ lk.thr[t].pc = "acquire"
    /\ lk' = [lk EXCEPT !.thr[t].pc = "yield"]
    /\ UNCHANGED nonLockVars

\* lines 84-94: the body has run; the lock, if taken, is released
Unlock(t) ==
    /\ lk.thr[t].pc = "yield"
    /\ lk' = [lk EXCEPT !.thr[t].pc = "idle", !.thr[t].locked = FALSE]
    /\ UNCHANGED nonLockVars

\* what thread t does once it is inside _file_lock
LockStep(t) == Flock(t) \/ Locking(t) \/ GiveUp(t) \/ NoLock(t) \/ Unlock(t)

LockNext ==
    \E t \in Workers :
        \/ \E op \in LockOps : EnterLock(t, op)
        \/ Flock(t)
        \/ Locking(t)
        \/ GiveUp(t)
        \/ NoLock(t)
        \/ Unlock(t)

SpecLock == LockInit /\ [][LockNext]_vars

\* every thread that can take a step inside _file_lock takes one in the end
SpecLockFair == SpecLock /\ \A t \in Workers : WF_vars(LockStep(t))

\* C30: no storage operation blocks indefinitely on lock acquisition: every
\* attempt to take the shared or exclusive lock either succeeds or, after at
\* most 10 attempts, fails with a lock-acquisition error; an operation never
\* waits forever for a lock held by another thread.
C30_LockNeverBlocksForever ==
    \A t \in Workers :
        /\ [](lk.thr[t].retry_count <= 10)
        /\ [](lk.thr[t].raised => lk.thr[t].retry_count = 10)
        /\ (lk.thr[t].pc = "acquire") ~> (lk.thr[t].locked \/ lk.thr[t].raised
                                               \/ lk.platform = "none")

\* a thread has given up after ten attempts while the other holds the lock
\* on the table file
C30_Witness ==
    \E t, u \in Workers :
        /\ t # u
        /\ lk.thr[t].raised /\ lk.thr[t].pc = "idle"
        /\ lk.thr[t].retry_count = 10
        /\ lk.thr[u].locked

\* C32: _ensure_csv_exists creates a header-only table file when the file is
\* missing or has size zero, leaves a non-empty file byte for byte unchanged,
\* and is idempotent: called any number of times in a row it has the effect
\* of one call.
C32_EnsureIsIdempotent ==
    [][rd'.op = "ensure"
          => (/\ (~file.exists \/ file.rows = << >>) => file' = File(<<HeaderRow>>)
              /\ (file.exists /\ file.rows # << >>) => file' = file
              /\ rd.op = "ensure" => file' = file)]_vars

\* _ensure_csv_exists has created the header-only file
C32_Witness ==
    /\ rd.op = "ensure" /\ rd.created
    /\ file = File(<<HeaderRow>>)

\* C33: create_backup() leaves the table file unchanged and produces a backup
\* file in the backup directory whose content is byte for byte the current
\* table file, or exactly the header row when the table file does not exist.
C33_BackupCopiesTable ==
    [][rd'.op = "backup"
          => (/\ file' = file
              /\ rd'.path \in DOMAIN backups'
              /\ file.exists => backups'[rd'.path] = file
              /\ ~file.exists => backups'[rd'.path] = File(<<HeaderRow>>))]_vars

\* create_backup() has written a header-only backup beside a missing table
\* file
C33_Witness ==
    /\ rd.op = "backup"
    /\ ~file.exists
    /\ backups[rd.path] = File(<<HeaderRow>>)

\* C35: for a table in which every record has a non-empty task and a
\* non-empty created_date, exporting with export_tasks_to_csv and importing
\* the exported content with replace_existing = true yields a table whose
\* read_tasks() output equals the output before the export, with imported
\* equal to the record count and errors equal to 0.
C35_ExportImportRoundTrip ==
    [][(/\ rd'.op = "import" /\ rd'.replace
        /\ \A i \in 1..Len(rd.tasks) :
               Truthy(rd.tasks[i]["task"]) /\ Truthy(rd.tasks[i]["created_date"]))
          => (/\ rd'.ok
              /\ ReadTasks(file').ok
              /\ Table(file') = rd.tasks
              /\ rd'.imported = Len(rd.tasks)
              /\ rd'.errors = 0)]_vars

\* C36: whenever import_tasks_from_csv returns a result, imported + skipped +
\* errors equals the number of data rows in the input content, in both
\* replace and merge mode.
C36_ImportCountsAddUp ==
    [][(Called("import") /\ res'.ok)
          => res'.imported + res'.skipped + res'.errors = Len(res'.rows)]_vars

\* a merge import has returned a result with a row imported, a row skipped
\* and a row in error
C36_Witness ==
    /\ res.op = "import" /\ res.ok /\ ~res.replace
    /\ res.imported > 0 /\ res.skipped > 0 /\ res.errors > 0

=============================================================================
